---------------------------- MODULE Spec2Model ----------------------------
(***************************************************************************)
(* A state-machine model of parts of the interpreter core:                 *)
(*   - the trap machinery of core/c-error.c (Push_Trap_Helper, Do_Error,   *)
(*     Halt, Trap_Stack_Overflow, Trapped_Helper_Halted)                   *)
(* Each subsystem has its own specification; the variables of the other    *)
(* subsystems stay at their initial values under it.                       *)
(***************************************************************************)
EXTENDS Integers, Sequences, FiniteSets, TLC

\* ------------------------------------------------------------------------
\* Bounds of the model
\* ------------------------------------------------------------------------
MaxPushes == 2       \* most entries on the data, call and guard stacks, plus GC_Disabled
MaxTraps == 2        \* deepest nesting of PUSH_TRAP / PUSH_UNHALTABLE_TRAP
MaxLevels == 3       \* most FUNC invocations running at once
MaxVarlists == 4     \* most FUNC invocations made in one run
MaxNest == 3         \* deepest nesting of CATCH and loop bodies
MaxRepeat == 3       \* highest count given to REPEAT
MaxMakes == 3        \* most Make_Series_Core calls and reallocations in one run
InitialBallast == 192    \* GC_Ballast when the run starts (the watermark)
ManualsCapacity == 2 \* rest of GC_Manuals at startup (scaled down from 15 slots)
MaxLen == 4          \* longest series Expand_Series is asked to make
MaxDelta == 2        \* largest delta given to Expand_Series (besides one past 2GB)
ManualsExtend == 1   \* slots Make_Series_Core extends GC_Manuals by (scaled down from 8)
MaxPath == 2         \* most refinements on the path given to SPECIALIZE or a call
MaxSpecializations == 2  \* longest chain of specializations starting at foo
MaxBase == 1         \* most values the caller has on the data stack beforehand
MaxPairs == 2        \* most word/value pairs in a block given to APPEND
MaxFrames == 4       \* FRAME! varlists that DO can be given
MaxPending == 2      \* most signals of the request's mask pending at once
MaxLength == 2       \* largest req->length given to Read_Signal
MAX_EXPAND_LIST == 2 \* slots of Prior_Expand (scaled down)
MaxRuns == 2          \* runs of one varlist through DO the model follows

\* ------------------------------------------------------------------------
\* Trap machinery: state
\* ------------------------------------------------------------------------
VARIABLES
    DS_Index,         \* DSP, the index of the top cell of the data stack (-1: empty)
    CS,               \* the call stack; CS[i] is the DSF in force when call i was pushed
    CS_Running,       \* DSF: index of the running call, 0 = NULL
    GC_Protect_tail,  \* GC_Protect->tail
    GC_Disabled,      \* GC_Disabled
    Saved_State,      \* Saved_State: address of the innermost REBOL_STATE, 0 = NULL
    stateMem,         \* the REBOL_STATE structs, by address
    pc,               \* "run", "jumped" (a LONG_JUMP is landing), "panic"
    jumpTarget,       \* the REBOL_STATE whose cpu_state the LONG_JUMP was given
    activeTraps,      \* history: push-time snapshots of the traps not yet left
    raised,           \* history: the error value handed to the last Do_Error
    caught,           \* history: what the handler that just got control read
    left              \* history: the trap that was just left, and the stacks after

trapVars == <<DS_Index, CS, CS_Running, GC_Protect_tail, GC_Disabled, Saved_State,
              stateMem, pc, jumpTarget, activeTraps, raised, caught, left>>

\* ------------------------------------------------------------------------
\* Definitional RETURN: state
\* ------------------------------------------------------------------------
VARIABLES
    levels,           \* the Level stack of FUNC invocations: [varlist, ret]; ret is
                      \* the binding of the RETURN cell in the frame
    ctxLevel,         \* per varlist: the stack index of its running Level, 0 = expired
    unwind,           \* the throw in flight: label, g_ts.unwind_level, value
    pcR,              \* "run" or "throwing"
    lastReturn        \* history: the outcome of the last RETURN call

returnVars == <<levels, ctxLevel, unwind, pcR, lastReturn>>

\* ------------------------------------------------------------------------
\* CATCH / THROW and loops: state
\* ------------------------------------------------------------------------
VARIABLES
    frames,           \* the CATCH and loop natives whose body is being evaluated
    D_OUT,            \* the output cell of the evaluation, with its THROWN flag
    TASK_THROWN_ARG,  \* the task-local thrown argument
    pcC,              \* "run" or "thrown"
    outcome           \* history: the last throw and what became of it

catchVars == <<frames, D_OUT, TASK_THROWN_ARG, pcC, outcome>>

\* ------------------------------------------------------------------------
\* Memory pools and series: state
\* ------------------------------------------------------------------------
VARIABLES
    NDEBUG,           \* the build: TRUE when NDEBUG is defined
    Mem_Pools,        \* per pool: first, last, next_if_free and header of each
                      \* node, segment count, free and has counts
    series,           \* per node of SER_POOL: the REBSER fields of the model
    GC_Manuals,       \* the manuals list: its entries (len of them), rest, data node
    Prior_Expand,     \* the recently-expanded list: slot n is entry n + 1
    GC_Ballast,       \* GC_Ballast
    SIG_RECYCLE,      \* the SIG_RECYCLE signal bit
    makes,            \* number of Make_Series_Core calls and of new
                      \* allocations by Expand_Series so far
    lastOp            \* history: the operation that just ran and what it saw

poolVars == <<NDEBUG, Mem_Pools, series, GC_Manuals, Prior_Expand, GC_Ballast,
              SIG_RECYCLE, makes, lastOp>>

VARIABLES
    extent            \* per series node: len, rest, bias, SERIES_FLAG_FIXED_SIZE and
                      \* the cells from the start of the allocation to the terminator

expandVars == <<extent>>

VARIABLES
    DS_Array,         \* the data stack seen by SPECIALIZE and MAKE FRAME!
    specialized,      \* the ACTION! value the run has built so far (foo at first)
    history,          \* how many specializations made the action, and the paths
                      \* they named in order while none of them had a def block
    lastSpec          \* what the last step did (history variable)

specVars == <<DS_Array, specialized, history, lastSpec>>

VARIABLES
    context,          \* the variables of one context: key, value and cell bits
    lastCtx,          \* what the last step on the context did (history variable)
    collector         \* the word collection: [active, binder], binder the
                      \* symbols that have an index, in index order

ctxVars == <<context, lastCtx, collector>>

VARIABLES
    unguarded,        \* history: per trap not yet left, the series made unmanaged
                      \* (and not managed since) while it was the innermost
    leaked            \* history: the series the trap just recovered from had made

recoverVars == <<unguarded, leaked>>

VARIABLES
    lastExit          \* the value the program ended with and the exit status

exitVars == <<lastExit>>

VARIABLES
    ctxs,             \* per FRAME! varlist: [invoked, inaccessible, runs], runs
                      \* counting the times its action was run through DO
    lastDo            \* history: the last DO of a FRAME! and how it ended

frameVars == <<ctxs, lastDo>>

VARIABLES
    REQ,              \* the signal request: [flags, actual, error]
    OS,               \* the process: [blocked, pending, errno]
    lastCmd           \* history: the last device command, its result and events

signalVars == <<REQ, OS, lastCmd>>

vars == <<trapVars, returnVars, catchVars, poolVars, expandVars, specVars,
          ctxVars, recoverVars, exitVars, frameVars, signalVars>>

RE_HALT == "RE_HALT"
RE_MISC == "RE_MISC"
RE_STACK_OVERFLOW == "RE_STACK_OVERFLOW"
TRASH_SAFE == "TRASH_SAFE"
TRASH == "TRASH"         \* what a read of discarded stack memory gives

ErrorNums == {RE_HALT, RE_MISC, RE_STACK_OVERFLOW}

TASK_HALT_ERROR == RE_HALT
TASK_STACK_ERROR == RE_STACK_OVERFLOW

DSP == DS_Index
DSF == CS_Running
CS_Top == Len(CS)
Pushes == (DSP + 1) + CS_Top + GC_Protect_tail + GC_Disabled

NoState == [dsp |-> -1, dsf |-> 0, hold_tail |-> 0, gc_disable |-> 0,
            last_state |-> 0, error |-> TRASH, unhaltable |-> FALSE]
NoCatch == [err |-> TRASH, trap |-> 0, unhaltable |-> FALSE, passed |-> FALSE,
            hops |-> 0]
NoRaise == [val |-> TRASH, where |-> "none"]
NoLeft == [how |-> "none"]

IS_ERROR(cell) == cell \in ErrorNums
VAL_ERR_NUM(cell) == cell

\* ------------------------------------------------------------------------
\* Trap machinery: the C functions
\* ------------------------------------------------------------------------

\* Push_Trap_Helper that does not link the enclosing trap.
Push_Trap_Helper_NoLink(s, unhaltable) ==
    [state |-> [dsp |-> DSP, dsf |-> DSF, hold_tail |-> GC_Protect_tail,
                gc_disable |-> GC_Disabled, last_state |-> 0,
                error |-> TRASH_SAFE, unhaltable |-> unhaltable],
     saved |-> s]

\* Push_Trap_Helper(s): the new contents of *s and of Saved_State.  Which of
\* PUSH_TRAP and PUSH_UNHALTABLE_TRAP called it is the place the setjmp
\* returns to; it is kept with the state.
Push_Trap_Helper(s, unhaltable) ==
    [state |-> [dsp |-> DSP, dsf |-> DSF, hold_tail |-> GC_Protect_tail,
                gc_disable |-> GC_Disabled, last_state |-> Saved_State,
                error |-> TRASH_SAFE, unhaltable |-> unhaltable],
     saved |-> s]

\* Trapped_Helper_Halted without its DS_DROP_TO(state->dsp).
Trapped_Helper_Halted_NoDrop(s) ==
    LET state == stateMem[s] IN
    [halted |-> (VAL_ERR_NUM(state.error) = RE_HALT),
     cs |-> SubSeq(CS, 1, state.dsf),
     dsf |-> state.dsf,
     dsp |-> DSP,
     tail |-> state.hold_tail,
     gc_disable |-> state.gc_disable,
     saved |-> state.last_state]

\* Trapped_Helper_Halted that takes no error for a halt.
Trapped_Helper_Halted_NeverHalted(s) ==
    LET state == stateMem[s] IN
    [halted |-> FALSE,
     cs |-> SubSeq(CS, 1, state.dsf),
     dsf |-> state.dsf,
     dsp |-> state.dsp,
     tail |-> state.hold_tail,
     gc_disable |-> state.gc_disable,
     saved |-> state.last_state]

\* Trapped_Helper_Halted(state): the interpreter state it leaves, and its
\* return value.
Trapped_Helper_Halted(s) ==
    LET state == stateMem[s] IN
    [halted |-> (VAL_ERR_NUM(state.error) = RE_HALT),
     cs |-> SubSeq(CS, 1, state.dsf),
     dsf |-> state.dsf,
     dsp |-> state.dsp,
     tail |-> state.hold_tail,
     gc_disable |-> state.gc_disable,
     saved |-> state.last_state]

\* The copy made after the jump: a cell on a discarded stack is gone.
Copy_Error_Cell_AfterJump(src) ==
    IF src.where \in {"local", "dstack"} THEN TRASH ELSE src.val

\* `Saved_State->error = *err` of Do_Error and Trap_Stack_Overflow: the cell
\* is read before the jump, while the memory it lives in is still there.
Copy_Error_Cell(src) == src.val

\* Do_Error(err) from the state (mem, saved): panics without a Saved_State,
\* else copies the cell and jumps.
Do_Error(mem, saved, cell) ==
    IF saved = 0
    THEN [pc |-> "panic", mem |-> mem, target |-> 0]
    ELSE [pc |-> "jumped",
          mem |-> [mem EXCEPT ![saved].error = cell],
          target |-> saved]

\* ------------------------------------------------------------------------
\* Trap machinery: actions
\* ------------------------------------------------------------------------
InnermostFloor ==
    IF activeTraps = <<>> THEN [dsp |-> -1, dsf |-> 0, tail |-> 0]
    ELSE activeTraps[Len(activeTraps)].snap

Snapshot == [dsp |-> DSP, dsf |-> DSF, tail |-> GC_Protect_tail]

Push_Trap(unhaltable) ==
    /\ pc = "run"
    /\ Len(activeTraps) < MaxTraps
    /\ Saved_State # 0 \/ (DSP = -1 /\ DSF = 0)
    /\ LET s == Len(activeTraps) + 1
           r == Push_Trap_Helper(s, unhaltable)
       IN /\ stateMem' = [stateMem EXCEPT ![s] = r.state]
          /\ Saved_State' = r.saved
          /\ activeTraps' = Append(activeTraps, [id |-> s, snap |-> Snapshot])
    /\ caught' = NoCatch
    /\ left' = NoLeft
    /\ UNCHANGED <<DS_Index, CS, CS_Running, GC_Protect_tail, GC_Disabled, pc,
                   jumpTarget, raised>>

\* DROP_TRAP_SAME_STACKLEVEL_AS_PUSH(s): the trapped code ran to its end.  It
\* has restored the stacks it used, as every evaluation step does; the macro
\* only unlinks the state.
Drop_Trap ==
    /\ pc = "run"
    /\ Saved_State # 0
    /\ LET state == stateMem[Saved_State] IN
       /\ DSP = state.dsp
       /\ DSF = state.dsf
       /\ CS_Top = state.dsf
       /\ GC_Protect_tail = state.hold_tail
       /\ GC_Disabled = state.gc_disable
       /\ Saved_State' = state.last_state
       /\ stateMem' = [stateMem EXCEPT ![Saved_State] = NoState]
       /\ left' = [how |-> "pop",
                   push |-> activeTraps[Len(activeTraps)].snap,
                   before |-> Snapshot,
                   after |-> Snapshot]
    /\ activeTraps' = SubSeq(activeTraps, 1, Len(activeTraps) - 1)
    /\ caught' = NoCatch
    /\ UNCHANGED <<DS_Index, CS, CS_Running, GC_Protect_tail, GC_Disabled, pc,
                   jumpTarget, raised>>

\* Steps of the code that runs between the traps: they only touch what is
\* above the levels the innermost trap was pushed at.
Quiet == caught' = NoCatch /\ left' = NoLeft

DS_Push ==
    /\ pc = "run"
    /\ Pushes < MaxPushes
    /\ DS_Index' = DSP + 1
    /\ Quiet
    /\ UNCHANGED <<CS, CS_Running, GC_Protect_tail, GC_Disabled, Saved_State,
                   stateMem, pc, jumpTarget, activeTraps, raised>>

DS_Drop ==
    /\ pc = "run"
    /\ DSP > InnermostFloor.dsp
    /\ DS_Index' = DSP - 1
    /\ Quiet
    /\ UNCHANGED <<CS, CS_Running, GC_Protect_tail, GC_Disabled, Saved_State,
                   stateMem, pc, jumpTarget, activeTraps, raised>>

\* A call frame is pushed (its arguments are still being gathered).
Make_Call ==
    /\ pc = "run"
    /\ Pushes < MaxPushes
    /\ CS' = Append(CS, DSF)
    /\ Quiet
    /\ UNCHANGED <<DS_Index, CS_Running, GC_Protect_tail, GC_Disabled, Saved_State,
                   stateMem, pc, jumpTarget, activeTraps, raised>>

\* SET_DSF(call): the top call starts running.
Set_DSF ==
    /\ pc = "run"
    /\ DSF < CS_Top
    /\ CS_Running' = CS_Top
    /\ Quiet
    /\ UNCHANGED <<DS_Index, CS, GC_Protect_tail, GC_Disabled, Saved_State,
                   stateMem, pc, jumpTarget, activeTraps, raised>>

\* Free_Call(call) of the top call, the prior frame running again.
Free_Call ==
    /\ pc = "run"
    /\ CS_Top > InnermostFloor.dsf
    /\ CS_Running' = IF DSF = CS_Top THEN CS[CS_Top] ELSE DSF
    /\ CS' = SubSeq(CS, 1, CS_Top - 1)
    /\ Quiet
    /\ UNCHANGED <<DS_Index, GC_Protect_tail, GC_Disabled, Saved_State,
                   stateMem, pc, jumpTarget, activeTraps, raised>>

Push_Guard ==
    /\ pc = "run"
    /\ Pushes < MaxPushes
    /\ GC_Protect_tail' = GC_Protect_tail + 1
    /\ Quiet
    /\ UNCHANGED <<DS_Index, CS, CS_Running, GC_Disabled, Saved_State,
                   stateMem, pc, jumpTarget, activeTraps, raised>>

Drop_Guard ==
    /\ pc = "run"
    /\ GC_Protect_tail > InnermostFloor.tail
    /\ GC_Protect_tail' = GC_Protect_tail - 1
    /\ Quiet
    /\ UNCHANGED <<DS_Index, CS, CS_Running, GC_Disabled, Saved_State,
                   stateMem, pc, jumpTarget, activeTraps, raised>>

Disable_GC ==
    /\ pc = "run"
    /\ Pushes < MaxPushes
    /\ GC_Disabled' = GC_Disabled + 1
    /\ Quiet
    /\ UNCHANGED <<DS_Index, CS, CS_Running, GC_Protect_tail, Saved_State,
                   stateMem, pc, jumpTarget, activeTraps, raised>>

Enable_GC ==
    /\ pc = "run"
    /\ GC_Disabled > 0
    /\ GC_Disabled' = GC_Disabled - 1
    /\ Quiet
    /\ UNCHANGED <<DS_Index, CS, CS_Running, GC_Protect_tail, Saved_State,
                   stateMem, pc, jumpTarget, activeTraps, raised>>

\* Where the error cell handed to Do_Error lives: in a local variable of the
\* raising C function, or in the top cell of the data stack (Trap_Port).
ErrorSources ==
    {[where |-> "local", val |-> e] : e \in {RE_MISC}}
        \cup (IF DSP > InnermostFloor.dsp
              THEN {[where |-> "dstack", val |-> RE_MISC]} ELSE {})

\* A raise: the state after Do_Error / Trap_Stack_Overflow has run.
RaiseCell(cell, val, where) ==
    /\ pc = "run"
    /\ LET r == Do_Error(stateMem, Saved_State, cell) IN
       /\ pc' = r.pc
       /\ stateMem' = r.mem
       /\ jumpTarget' = r.target
    /\ raised' = [val |-> val, where |-> where]
    /\ Quiet
    /\ UNCHANGED <<DS_Index, CS, CS_Running, GC_Protect_tail, GC_Disabled,
                   Saved_State, activeTraps>>

Raise(src) == RaiseCell(Copy_Error_Cell(src), src.val, src.where)

\* Halt(): Do_Error(TASK_HALT_ERROR)
Halt == RaiseCell(TASK_HALT_ERROR, RE_HALT, "task")

\* Trap_Stack_Overflow()
Trap_Stack_Overflow == RaiseCell(TASK_STACK_ERROR, RE_STACK_OVERFLOW, "task")

\* The setjmp of a PUSH_TRAP / PUSH_UNHALTABLE_TRAP returns nonzero: the
\* macro runs Trapped_Helper_Halted; PUSH_TRAP raises a halt again, to the
\* enclosing trap, and otherwise the handler has the error.
Trapped ==
    /\ pc = "jumped"
    /\ LET s == jumpTarget
           r == Trapped_Helper_Halted(s)
           reraise == r.halted /\ ~stateMem[s].unhaltable
           mem == [stateMem EXCEPT ![s] = NoState]
           j == Do_Error(mem, r.saved, TASK_HALT_ERROR)
           hops == IF caught.passed THEN caught.hops ELSE 0
       IN /\ DS_Index' = r.dsp
          /\ CS' = r.cs
          /\ CS_Running' = r.dsf
          /\ GC_Protect_tail' = r.tail
          /\ GC_Disabled' = r.gc_disable
          /\ Saved_State' = r.saved
          /\ left' = [how |-> "trap",
                      push |-> activeTraps[s].snap,
                      before |-> Snapshot,
                      after |-> [dsp |-> r.dsp, dsf |-> r.dsf,
                                 tail |-> r.tail]]
          /\ activeTraps' = SubSeq(activeTraps, 1, s - 1)
          /\ IF reraise
             THEN /\ pc' = j.pc
                  /\ stateMem' = j.mem
                  /\ jumpTarget' = j.target
                  /\ raised' = [val |-> RE_HALT, where |-> "task"]
                  /\ caught' = [err |-> stateMem[s].error, trap |-> s,
                                unhaltable |-> stateMem[s].unhaltable,
                                passed |-> TRUE, hops |-> hops + 1]
             ELSE /\ pc' = "run"
                  /\ stateMem' = mem
                  /\ jumpTarget' = 0
                  /\ raised' = raised
                  /\ caught' = [err |-> stateMem[s].error, trap |-> s,
                                unhaltable |-> stateMem[s].unhaltable,
                                passed |-> FALSE, hops |-> hops]

InitTrap ==
    /\ DS_Index = -1
    /\ CS = <<>>
    /\ CS_Running = 0
    /\ GC_Protect_tail = 0
    /\ GC_Disabled = 0
    /\ Saved_State = 0
    /\ stateMem = [s \in 1..MaxTraps |-> NoState]
    /\ pc = "run"
    /\ jumpTarget = 0
    /\ activeTraps = <<>>
    /\ raised = NoRaise
    /\ caught = NoCatch
    /\ left = NoLeft

NextTrap ==
    \/ \E u \in BOOLEAN : Push_Trap(u)
    \/ Drop_Trap
    \/ DS_Push
    \/ DS_Drop
    \/ Make_Call
    \/ Set_DSF
    \/ Free_Call
    \/ Push_Guard
    \/ Drop_Guard
    \/ Disable_GC
    \/ Enable_GC
    \/ \E src \in ErrorSources : Raise(src)
    \/ Halt
    \/ Trap_Stack_Overflow
    \/ Trapped


\* ------------------------------------------------------------------------
\* Trap machinery: properties
\* ------------------------------------------------------------------------

C2_HandlerReadsRaisedError ==
    /\ pc = "jumped" => stateMem[jumpTarget].error = raised.val
    /\ caught.trap # 0 => caught.err = raised.val

\* A handler has read an error whose cell was on the data stack, above the
\* level the helper dropped the stack to.
C2_Witness ==
    /\ caught.trap # 0
    /\ ~caught.passed
    /\ raised.where = "dstack"
    /\ caught.err = RE_MISC
    /\ left.before.dsp > left.after.dsp

\* C3: Saved_State is the innermost trap not yet left, the last_state fields
\* chain the traps outward in the order they were pushed, and a jump lands
\* in the innermost trap; so after a recovery Saved_State is the trap that
\* enclosed the catching one.
C3_SavedStateIsInnermost ==
    /\ Saved_State = IF activeTraps = <<>> THEN 0
                     ELSE activeTraps[Len(activeTraps)].id
    /\ \A i \in 1..Len(activeTraps) :
          stateMem[activeTraps[i].id].last_state
              = IF i = 1 THEN 0 ELSE activeTraps[i - 1].id
    /\ pc = "jumped" => jumpTarget = Saved_State
    /\ caught.trap # 0 =>
          \A i \in 1..Len(activeTraps) : activeTraps[i].id # caught.trap

\* The handler of a nested trap has control and Saved_State is the trap
\* that enclosed it.
C3_Witness ==
    /\ pc = "run"
    /\ caught.trap = 2
    /\ Saved_State = 1
    /\ Len(activeTraps) = 1

\* C4: an ordinary trap that a halt reaches does not consume it: it passes
\* the halt to the enclosing trap (or panics when there is none); only the
\* handler of an unhaltable trap is left holding a halt.
C4_HaltUnmaskable ==
    (caught.trap # 0 /\ caught.err = RE_HALT) =>
        IF caught.unhaltable
        THEN ~caught.passed /\ pc = "run"
        ELSE /\ caught.passed
             /\ pc \in {"jumped", "panic"}
             /\ raised.val = RE_HALT
             /\ pc = "jumped" =>
                   (jumpTarget = Saved_State
                        /\ stateMem[jumpTarget].error = RE_HALT)

\* An unhaltable trap has caught a halt that an ordinary trap passed on.
C4_Witness ==
    /\ caught.err = RE_HALT
    /\ caught.unhaltable
    /\ ~caught.passed
    /\ caught.hops >= 1

\* ------------------------------------------------------------------------
\* Definitional RETURN (functionals/n-function.c)
\* ------------------------------------------------------------------------
NoValue == [kind |-> "none", v |-> 0]
NoUnwind == [label |-> "none", unwind_level |-> 0, value |-> NoValue,
             binding |-> 0]
NoReturn == [how |-> "none"]
ReturnValues == {[kind |-> "integer", v |-> 10], [kind |-> "text", v |-> 0]}

\* Typecheck_Coerce_Return against a `return: [integer!]` spec
Typecheck_Coerce_Return(atom) == atom.kind = "integer"

\* CTX_LEVEL_MAY_FAIL(binding): the running Level of the context, 0 when the
\* frame is no longer on the stack (the call fails)
CTX_LEVEL_MAY_FAIL(binding) == ctxLevel[binding]

\* RETURN that unwinds to the nearest running invocation instead of the one
\* it is bound to.
definitional_return_Nearest(binding, atom, only) ==
    IF binding = 0 THEN [fail |-> "unbound-archetype"]
    ELSE IF CTX_LEVEL_MAY_FAIL(binding) = 0 THEN [fail |-> "expired-frame"]
    ELSE IF ~only /\ ~Typecheck_Coerce_Return(atom)
         THEN [fail |-> "bad-return-type"]
    ELSE [fail |-> "none",
          thrown |-> [label |-> "UNWIND", unwind_level |-> Len(levels),
                      value |-> atom, binding |-> binding]]

\* DECLARE_NATIVE(definitional_return): a failure, or the thrown state
\* (label UNWIND, g_ts.unwind_level, the value).  Level_Binding(LEVEL) is
\* the binding of the RETURN cell that was called.
definitional_return(binding, atom, only) ==
    IF binding = 0 THEN [fail |-> "unbound-archetype"]
    ELSE IF CTX_LEVEL_MAY_FAIL(binding) = 0 THEN [fail |-> "expired-frame"]
    ELSE IF ~only /\ ~Typecheck_Coerce_Return(atom)
         THEN [fail |-> "bad-return-type"]
    ELSE [fail |-> "none",
          thrown |-> [label |-> "UNWIND",
                      unwind_level |-> CTX_LEVEL_MAY_FAIL(binding),
                      value |-> atom, binding |-> binding]]

\* Func_Dispatcher, initial_entry: a FUNC is invoked; the RETURN slot of its
\* frame gets the definitional return bound to the frame's varlist.
Func_Dispatcher_Entry ==
    /\ pcR = "run"
    /\ Len(levels) < MaxLevels
    /\ \E v \in 1..MaxVarlists :
          /\ \A w \in 1..MaxVarlists : ctxLevel[w] # -1 => w < v
          /\ ctxLevel[v] = -1
          /\ levels' = Append(levels, [varlist |-> v, ret |-> v])
          /\ ctxLevel' = [ctxLevel EXCEPT ![v] = Len(levels) + 1]
    /\ lastReturn' = NoReturn
    /\ UNCHANGED <<unwind, pcR>>

\* Func_Dispatcher, body_finished_without_returning: the Level is dropped and
\* its context expires.
Func_Dispatcher_Finish ==
    /\ pcR = "run"
    /\ levels # <<>>
    /\ ctxLevel' = [ctxLevel EXCEPT ![levels[Len(levels)].varlist] = 0]
    /\ levels' = SubSeq(levels, 1, Len(levels) - 1)
    /\ lastReturn' = [how |-> "fallout"]
    /\ UNCHANGED <<unwind, pcR>>

\* The running code calls a RETURN: the one of some invocation made so far
\* (it may have been passed down, or kept after the invocation ended), or
\* the unbound RETURN of lib (binding 0).
Call_Return(binding, atom, only) ==
    /\ pcR = "run"
    /\ levels # <<>>
    /\ IF binding = 0 THEN TRUE ELSE ctxLevel[binding] # -1
    /\ LET r == definitional_return(binding, atom, only) IN
       IF r.fail # "none"
       THEN \* fail(): the error unwinds every Level (no trap in this model)
            /\ levels' = <<>>
            /\ ctxLevel' = [v \in 1..MaxVarlists |->
                               IF ctxLevel[v] = -1 THEN -1 ELSE 0]
            /\ lastReturn' = [how |-> r.fail]
            /\ UNCHANGED <<unwind, pcR>>
       ELSE /\ unwind' = r.thrown
            /\ pcR' = "throwing"
            /\ lastReturn' = [how |-> "thrown", dropped |-> 0]
            /\ UNCHANGED <<levels, ctxLevel>>

\* The throw reaches the top Level: the Level it names in g_ts.unwind_level
\* catches it and returns the value to its caller, any other is dropped.
Unwind_Step ==
    /\ pcR = "throwing"
    /\ levels # <<>>
    /\ LET top == Len(levels) IN
       /\ ctxLevel' = [ctxLevel EXCEPT ![levels[top].varlist] = 0]
       /\ levels' = SubSeq(levels, 1, top - 1)
       /\ IF unwind.unwind_level = top
          THEN /\ pcR' = "run"
               /\ unwind' = NoUnwind
               /\ lastReturn' = [how |-> "caught", by |-> levels[top].varlist,
                                 binding |-> unwind.binding,
                                 value |-> unwind.value,
                                 dropped |-> lastReturn.dropped,
                                 under |-> top - 1]
          ELSE /\ lastReturn' = [how |-> "thrown",
                                 dropped |-> lastReturn.dropped + 1]
               /\ UNCHANGED <<unwind, pcR>>

InitReturn ==
    /\ levels = <<>>
    /\ ctxLevel = [v \in 1..MaxVarlists |-> -1]
    /\ unwind = NoUnwind
    /\ pcR = "run"
    /\ lastReturn = NoReturn

NextReturn ==
    \/ Func_Dispatcher_Entry
    \/ Func_Dispatcher_Finish
    \/ \E b \in 0..MaxVarlists, a \in ReturnValues, only \in BOOLEAN :
          Call_Return(b, a, only)
    \/ Unwind_Step


\* C5: a RETURN is caught by the invocation whose frame it is bound to and
\* by no other: while the throw is in flight the target Level is the running
\* Level of the bound frame, and the Level that catches is that one.
C5_ReturnUnwindsToBoundFrame ==
    /\ pcR = "throwing" =>
          /\ unwind.unwind_level \in 1..Len(levels)
          /\ levels[unwind.unwind_level].varlist = unwind.binding
    /\ lastReturn.how = "caught" =>
          /\ lastReturn.by = lastReturn.binding
          /\ Len(levels) = lastReturn.under

\* A RETURN bound to an outer invocation was caught by it after the throw
\* went through a deeper invocation of the function, with another
\* invocation still running below.
C5_Witness ==
    /\ lastReturn.how = "caught"
    /\ lastReturn.by = lastReturn.binding
    /\ lastReturn.dropped >= 1
    /\ Len(levels) >= 1
    /\ lastReturn.value.v = 10

\* ------------------------------------------------------------------------
\* CATCH / THROW (n-control.c) and loops (Process_Loop_Throw, c-error.c)
\* ------------------------------------------------------------------------
Cell(kind, sym) == [kind |-> kind, sym |-> sym, thrown |-> FALSE]
BLANK == Cell("blank", "")
UNSET == Cell("unset", "")
SAFE_TRASH == Cell("trash", "")
N_quit == Cell("action", "quit")
SYM_BREAK == "break"
SYM_CONTINUE == "continue"

ThrowValues == {Cell("word", "done"), Cell("error", "misc")}
ThrowNames == {BLANK, Cell("word", "foo"), Cell("word", SYM_BREAK),
               Cell("word", SYM_CONTINUE), N_quit}
\* what /name is given: a word, or a block of words; the candidates in order
CatchNames == {<< Cell("word", "foo") >>,
               << Cell("word", SYM_BREAK), Cell("word", "foo") >>}
\* the refinements of a CATCH call: /any, /quit, /name names
CatchCalls ==
    {[kind |-> "catch", any |-> a, quit |-> q, name |-> FALSE, names |-> << >>] :
        a \in BOOLEAN, q \in BOOLEAN}
    \cup {[kind |-> "catch", any |-> a, quit |-> FALSE, name |-> TRUE, names |-> n] :
        a \in BOOLEAN, n \in CatchNames}

\* CONVERT_NAME_TO_THROWN(name, arg): the name cell and TASK_THROWN_ARG after
Convert_Name_To_Thrown(name, arg) ==
    [name |-> [name EXCEPT !.thrown = TRUE], arg |-> arg]

\* TAKE_THROWN_ARG that leaves the argument in the task-local slot.
Take_Thrown_Arg_KeepsSlot(thrown, same) ==
    [out |-> TASK_THROWN_ARG,
     thrown |-> IF same THEN TASK_THROWN_ARG
                ELSE [thrown EXCEPT !.thrown = FALSE],
     arg |-> TASK_THROWN_ARG]

\* TAKE_THROWN_ARG / CATCH_THROWN(out, thrown): out, thrown and
\* TASK_THROWN_ARG after; `same` when out is the same cell as thrown, which
\* then holds the argument
Take_Thrown_Arg(thrown, same) ==
    [out |-> TASK_THROWN_ARG,
     thrown |-> IF same THEN TASK_THROWN_ARG
                ELSE [thrown EXCEPT !.thrown = FALSE],
     arg |-> SAFE_TRASH]

\* Loop processing that takes every thrown value for a BREAK.
Process_Loop_Throw_AnyBreaks(val) ==
    LET t == Take_Thrown_Arg(val, TRUE) IN
    [r |-> 1, val |-> t.thrown, arg |-> t.arg]

\* Process_Loop_Throw(val): its result, val and TASK_THROWN_ARG after
Process_Loop_Throw(val) ==
    IF val.kind # "word" THEN [r |-> 0, val |-> val, arg |-> TASK_THROWN_ARG]
    ELSE IF val.sym = SYM_BREAK
         THEN LET t == Take_Thrown_Arg(val, TRUE) IN
              [r |-> 1, val |-> t.thrown, arg |-> t.arg]
    ELSE IF val.sym = SYM_CONTINUE
         THEN [r |-> -1, val |-> UNSET, arg |-> TASK_THROWN_ARG]
    ELSE [r |-> 0, val |-> val, arg |-> TASK_THROWN_ARG]

\* equal? of a catch name and the thrown label (Compare_Modify_Values)
Compare_Modify_Values(a, b) == a.kind = b.kind /\ a.sym = b.sym

\* A CATCH whose /any catches QUIT as well.
Catch_Was_Caught_AnyTakesQuit(c, out) ==
    IF c.any THEN TRUE
    ELSE IF c.quit /\ out.kind = "action" /\ out.sym = N_quit.sym THEN TRUE
    ELSE IF c.name
    THEN \E i \in DOMAIN c.names : Compare_Modify_Values(c.names[i], out)
    ELSE out.kind = "blank"

\* REBNATIVE(catch) once its block has thrown: does this CATCH catch D_OUT?
Catch_Was_Caught(c, out) ==
    LET is_quit == out.kind = "action" /\ out.sym = N_quit.sym IN
    IF c.any /\ ~is_quit THEN TRUE
    ELSE IF c.quit /\ is_quit THEN TRUE
    ELSE IF c.name
    THEN \E i \in DOMAIN c.names : Compare_Modify_Values(c.names[i], out)
    ELSE out.kind = "blank"

NoOutcome == [how |-> "none"]

\* REBNATIVE(catch) is called: /any with /name is refused, else its block
\* starts to run.
Enter_Catch(c) ==
    /\ pcC = "run"
    /\ Len(frames) < MaxNest
    /\ IF c.any /\ c.name
       THEN frames' = <<>> /\ outcome' = [how |-> "bad-refines"]
       ELSE frames' = Append(frames, c) /\ outcome' = NoOutcome
    /\ UNCHANGED <<D_OUT, TASK_THROWN_ARG, pcC>>

\* REPEAT with a count starts its first iteration.
Enter_Loop(n) ==
    /\ pcC = "run"
    /\ Len(frames) < MaxNest
    /\ frames' = Append(frames, [kind |-> "loop", n |-> n, i |-> 1])
    /\ outcome' = NoOutcome
    /\ UNCHANGED <<D_OUT, TASK_THROWN_ARG, pcC>>

\* The body of the innermost CATCH or loop ends without a throw.
Body_Done ==
    /\ pcC = "run"
    /\ frames # <<>>
    /\ LET top == frames[Len(frames)] IN
       frames' = IF top.kind = "loop" /\ top.i < top.n
                 THEN [frames EXCEPT ![Len(frames)].i = top.i + 1]
                 ELSE SubSeq(frames, 1, Len(frames) - 1)
    /\ D_OUT' = UNSET
    /\ outcome' = NoOutcome
    /\ UNCHANGED <<TASK_THROWN_ARG, pcC>>

\* REBNATIVE(throw): `throw value` (name BLANK) or `throw/name value name`
Throw(value, name) ==
    /\ pcC = "run"
    /\ IF value.kind = "error"
       THEN /\ frames' = <<>>
            /\ outcome' = [how |-> "use-fail-for-error"]
            /\ UNCHANGED <<D_OUT, TASK_THROWN_ARG, pcC>>
       ELSE LET r == Convert_Name_To_Thrown(name, value) IN
            /\ D_OUT' = r.name
            /\ TASK_THROWN_ARG' = r.arg
            /\ pcC' = "thrown"
            /\ outcome' = [how |-> "flying", label |-> name, arg |-> value,
                           snap |-> frames, loops |-> 0,
                           taken |-> UNSET, thrown |-> r.name]
            /\ UNCHANGED frames

\* The thrown D_OUT comes back to the innermost native: a loop hands it to
\* Process_Loop_Throw, a CATCH tests it; with nothing left the throw is
\* reported at the top as not caught.
Propagate ==
    /\ pcC = "thrown"
    /\ LET d == Len(frames) IN
       IF d = 0
       THEN LET t == Take_Thrown_Arg(D_OUT, FALSE) IN   \* Trap_Thrown
            /\ outcome' = [outcome EXCEPT !.how = "no-catch",
                                          !.taken = t.out,
                                          !.thrown = t.thrown]
            /\ pcC' = "run"
            /\ D_OUT' = UNSET
            /\ TASK_THROWN_ARG' = t.arg
            /\ UNCHANGED frames
       ELSE IF frames[d].kind = "loop"
       THEN LET p == Process_Loop_Throw(D_OUT) IN
            /\ D_OUT' = p.val
            /\ TASK_THROWN_ARG' = p.arg
            /\ IF p.r = 0
               THEN /\ frames' = SubSeq(frames, 1, d - 1)
                    /\ outcome' = [outcome EXCEPT !.loops = @ + 1]
                    /\ UNCHANGED pcC
               ELSE /\ pcC' = "run"
                    /\ outcome' = [outcome EXCEPT
                                     !.how = IF p.r = 1 THEN "break" ELSE "continue",
                                     !.taken = IF p.r = 1 THEN p.val ELSE @,
                                     !.thrown = p.val]
                    /\ frames' = IF p.r = -1 /\ frames[d].i < frames[d].n
                                 THEN [frames EXCEPT ![d].i = @ + 1]
                                 ELSE SubSeq(frames, 1, d - 1)
       ELSE /\ frames' = SubSeq(frames, 1, d - 1)
            /\ IF Catch_Was_Caught(frames[d], D_OUT)
               THEN LET t == Take_Thrown_Arg(D_OUT, TRUE) IN
                    /\ D_OUT' = t.thrown
                    /\ TASK_THROWN_ARG' = t.arg
                    /\ pcC' = "run"
                    /\ outcome' = [outcome EXCEPT !.how = "caught",
                                                  !.taken = t.out,
                                                  !.thrown = t.thrown]
               ELSE UNCHANGED <<D_OUT, TASK_THROWN_ARG, pcC, outcome>>

InitCatch ==
    /\ frames = <<>>
    /\ D_OUT = UNSET
    /\ TASK_THROWN_ARG = SAFE_TRASH
    /\ pcC = "run"
    /\ outcome = NoOutcome

NextCatch ==
    \/ \E c \in CatchCalls : Enter_Catch(c)
    \/ \E n \in 1..MaxRepeat : Enter_Loop(n)
    \/ Body_Done
    \/ \E v \in ThrowValues, n \in ThrowNames : Throw(v, n)
    \/ Propagate

C29_ThrownRoundTrip ==
    /\ \A name \in ThrowNames, a \in ThrowValues :
          LET c == Convert_Name_To_Thrown(name, a) IN
          /\ c.name.thrown
          /\ [c.name EXCEPT !.thrown = FALSE] = name
          /\ c.arg = a
    /\ pcC = "thrown" =>
          /\ D_OUT.thrown
          /\ [D_OUT EXCEPT !.thrown = FALSE] = outcome.label
          /\ TASK_THROWN_ARG = outcome.arg
    /\ outcome.how \in {"caught", "break", "no-catch"} =>
          /\ outcome.taken = outcome.arg
          /\ ~outcome.thrown.thrown
          /\ outcome.how = "no-catch" => outcome.thrown = outcome.label
          /\ outcome.how # "no-catch" => outcome.thrown = outcome.arg
          /\ TASK_THROWN_ARG = SAFE_TRASH
          /\ ~D_OUT.thrown

C29_Witness ==
    /\ outcome.how = "no-catch"
    /\ outcome.label = Cell("word", "foo")
    /\ outcome.taken = Cell("word", "done")
    /\ outcome.thrown = Cell("word", "foo")
    /\ Len(outcome.snap) >= 1
    /\ TASK_THROWN_ARG = SAFE_TRASH

\* C38: whenever a thrown value has been consumed (caught by a CATCH,
\* turned into the no-catch error, or handled by a loop as BREAK or
\* CONTINUE) its THROWN bit is off and TASK_THROWN_ARG is SAFE_TRASH again:
\* while nothing is being thrown the slot holds no argument.
C38_ConsumedThrowTrashesSlot ==
    /\ outcome.how \in {"caught", "no-catch", "break", "continue"}
          => /\ ~D_OUT.thrown
             /\ ~outcome.thrown.thrown
             /\ TASK_THROWN_ARG = SAFE_TRASH
    /\ pcC = "run" => TASK_THROWN_ARG = SAFE_TRASH

DATA_POOL == 1           \* a pool FIND_POOL picks for small series data
SER_POOL == 2            \* the pool of series nodes
PoolIds == {DATA_POOL, SER_POOL}
SYSTEM_POOL == 3         \* the entry that counts the bytes allocated outside the pools
POOL_UNITS == 2          \* nodes per segment: Startup_Pools never goes below 2
SIZEOF_REBSER == 64      \* sizeof(REBSER)
POOL_WIDE == 128         \* Mem_Pools[DATA_POOL].wide
UNPOOLED_SIZE == 2048    \* size of an allocation too big for the pools
INT32_MAX == 2147483647

FREED_SERIES_BYTE == "FREE"   \* header of a free node
NODE_FLAG_NODE == "NODE"      \* header of an unmanaged series node
NODE_FLAG_MANAGED == "MANAGED" \* header of a managed series node
DATA_BYTES == "DATA"          \* a data node in use: its bytes belong to the client

\* handle: what the head cell of a singular array holds: "none" (no HANDLE!),
\* "self" (a HANDLE! whose extra.singular is this array) or "other" (a HANDLE!
\* made for another array); cleaner: MISC(s).cleaner is set
NoSeries == [dynamic |-> FALSE, data |-> 0, size |-> 0, inaccessible |-> FALSE,
             handle |-> "none", cleaner |-> FALSE]

\* the free list of a pool, from pool->first along next_if_free
RECURSIVE Walk(_, _, _)
Walk(pl, n, fuel) ==
    IF n = 0 \/ fuel = 0 THEN <<>>
    ELSE <<n>> \o Walk(pl, pl.next[n], fuel - 1)

FreeList(pl) == Walk(pl, pl.first, Len(pl.next) + 1)

\* Fill_Pool that links only the first node of the segment.
Fill_Pool_OneNode(pl) ==
    LET base == Len(pl.next)
        linked == IF pl.first = 0 THEN pl.next
                  ELSE [pl.next EXCEPT ![pl.last] = base + 1]
    IN [first |-> IF pl.first = 0 THEN base + 1 ELSE pl.first,
        last |-> base + 1,
        next |-> linked \o [i \in 1..POOL_UNITS |-> 0],
        hdr |-> pl.hdr \o [i \in 1..POOL_UNITS |-> FREED_SERIES_BYTE],
        stamp |-> pl.stamp \o [i \in 1..POOL_UNITS |-> 0],
        segs |-> pl.segs + 1,
        free |-> pl.free + POOL_UNITS,
        has |-> pl.has + POOL_UNITS,
        agreed |-> pl.agreed /\ (pl.first = 0 <=> pl.last = 0)]

\* Fill_Pool(pool): one more segment, its nodes threaded at the end of the
\* free list, each header the free pattern.  agreed is history: every
\* Fill_Pool so far found pool->first and pool->last both null or both
\* non-null (the two asserts of the function).
Fill_Pool(pl) ==
    LET base == Len(pl.next)
        chain == [i \in 1..POOL_UNITS |->
                     IF i = POOL_UNITS THEN 0 ELSE base + i + 1]
        linked == IF pl.first = 0 THEN pl.next
                  ELSE [pl.next EXCEPT ![pl.last] = base + 1]
    IN [first |-> IF pl.first = 0 THEN base + 1 ELSE pl.first,
        last |-> base + POOL_UNITS,
        next |-> linked \o chain,
        hdr |-> pl.hdr \o [i \in 1..POOL_UNITS |-> FREED_SERIES_BYTE],
        stamp |-> pl.stamp \o [i \in 1..POOL_UNITS |-> 0],
        segs |-> pl.segs + 1,
        free |-> pl.free + POOL_UNITS,
        has |-> pl.has + POOL_UNITS,
        agreed |-> pl.agreed /\ (pl.first = 0 <=> pl.last = 0)]

\* Make_Node that adds a segment whether or not the free list is empty.
Make_Node_AlwaysFill(pl) ==
    LET p1 == Fill_Pool(pl)
        node == p1.first
    IN [pool |-> [p1 EXCEPT !.first = p1.next[node],
                            !.last = IF node = p1.last THEN 0 ELSE p1.last,
                            !.free = p1.free - 1],
        node |-> node,
        filled |-> TRUE]

\* Make_Node that leaves pool->last alone when it hands out the last node.
Make_Node_KeepsLast(pl) ==
    LET p1 == IF pl.first = 0 THEN Fill_Pool(pl) ELSE pl
        node == p1.first
    IN [pool |-> [p1 EXCEPT !.first = p1.next[node],
                            !.free = p1.free - 1],
        node |-> node,
        filled |-> (pl.first = 0)]

\* Make_Node(pool_id): the pool after, the node, and whether the pool was
\* filled
Make_Node(pl) ==
    LET p1 == IF pl.first = 0 THEN Fill_Pool(pl) ELSE pl
        node == p1.first
    IN [pool |-> [p1 EXCEPT !.first = p1.next[node],
                            !.last = IF node = p1.last THEN 0 ELSE p1.last,
                            !.free = p1.free - 1],
        node |-> node,
        filled |-> (pl.first = 0)]

\* Free_Node(pool_id, p): the release build puts the node first in the free
\* list, the debug build last (filling the pool first when it is empty).
\* stamp is history: the number of segments when the node was freed.
Free_Node(pl, node) ==
    IF NDEBUG
    THEN [pl EXCEPT !.hdr[node] = FREED_SERIES_BYTE,
                    !.next[node] = pl.first,
                    !.first = node,
                    !.free = pl.free + 1,
                    !.stamp[node] = pl.segs]
    ELSE LET p1 == IF pl.last = 0 THEN Fill_Pool(pl) ELSE pl IN
         [p1 EXCEPT !.hdr[node] = FREED_SERIES_BYTE,
                    !.next[p1.last] = node,
                    !.next[node] = 0,
                    !.last = node,
                    !.free = p1.free + 1,
                    !.stamp[node] = p1.segs]

\* Free_Unbiased_Series_Data without the write of the free pattern.
Free_Unbiased_Series_Data_NoHeader(pl, node) ==
    [pl EXCEPT !.next[node] = pl.first,
               !.first = node,
               !.free = pl.free + 1,
               !.stamp[node] = pl.segs]

\* Free_Unbiased_Series_Data(unbiased, size) for a pooled size
Free_Unbiased_Series_Data(pl, node) ==
    [pl EXCEPT !.next[node] = pl.first,
               !.first = node,
               !.free = pl.free + 1,
               !.hdr[node] = FREED_SERIES_BYTE,
               !.stamp[node] = pl.segs]

\* The ballast test of an allocation made with `<` for `<=`.
Ballast_Alloc_Strict(ballast, signal, size) ==
    [ballast |-> ballast - size, signal |-> signal \/ (ballast - size < 0)]

\* `if ((GC_Ballast -= size) <= 0) SET_SIGNAL(SIG_RECYCLE)` of
\* Make_Series_Core and Series_Data_Alloc
Ballast_Alloc(ballast, signal, size) ==
    [ballast |-> ballast - size, signal |-> signal \/ (ballast - size <= 0)]

\* Series_Data_Alloc(s, length): pooled when `pooled`, else from the system;
\* gives the pool after, the data node (0: unpooled), the size, and the
\* ballast and signal after.
Series_Data_Alloc(pl, pooled, ballast, signal) ==
    LET mk == Make_Node(pl)
        size == IF pooled THEN POOL_WIDE ELSE UNPOOLED_SIZE
        b == Ballast_Alloc(ballast, signal, size)
    IN [pool |-> IF pooled THEN [mk.pool EXCEPT !.hdr[mk.node] = DATA_BYTES]
                 ELSE pl,
        node |-> IF pooled THEN mk.node ELSE 0,
        filled |-> pooled /\ mk.filled,
        size |-> size,
        ballast |-> b.ballast,
        signal |-> b.signal]

SER_FULL(m) == Len(m.list) + 1 >= m.rest

EXPAND_SENTINEL == -1    \* (REBSER*)1, what Startup_Pools puts in slot 0

\* `Prior_Expand[n_found] == s` for some slot: the series was expanded
\* recently
Recently_Expanded(prior, s) == \E k \in 1..Len(prior) : prior[k] = s

\* n_available when the loop of Expand_Series has run through: the last
\* null slot, or slot 0 when no slot is null
Available_Slot(prior) ==
    LET nulls == {k \in 1..Len(prior) : prior[k] = 0}
    IN IF nulls = {} THEN 1
       ELSE CHOOSE k \in nulls : \A j \in nulls : j <= k

\* `if (n_found >= MAX_EXPAND_LIST) Prior_Expand[n_available] = s`
Note_Expansion(prior, s) ==
    IF Recently_Expanded(prior, s) THEN prior
    ELSE [prior EXCEPT ![Available_Slot(prior)] = s]

\* the loop of Decay_Series over the slots from 1 on
Forget_Expansion(prior, s) ==
    [k \in 1..Len(prior) |-> IF k > 1 /\ prior[k] = s THEN 0 ELSE prior[k]]

\* Extend_Series(GC_Manuals, delta): Expand_Series at the tail (always a new
\* allocation when the list is full), the length put back
Extend_Manuals(m, pl, prior, ballast, signal) ==
    LET len_old == Len(m.list)
        x == IF Recently_Expanded(prior, 1)
             THEN len_old + ManualsExtend + 1 ELSE 1
        a == Series_Data_Alloc(pl, TRUE, ballast, signal)
    IN [manuals |-> [m EXCEPT !.rest = len_old + ManualsExtend + x,
                              !.data = a.node],
        pool |-> Free_Unbiased_Series_Data(a.pool, m.data),
        prior |-> Note_Expansion(prior, 1),
        ballast |-> a.ballast,
        signal |-> a.signal]

\* Untrack_Manual_Series that only chops the tail of the list.
Untrack_Manual_Series_ChopTail(list, s) ==
    SubSeq(list, 1, Len(list) - 1)

\* Untrack_Manual_Series(s): the entries of GC_Manuals after
Untrack_Manual_Series(list, s) ==
    LET last == Len(list)
        at == CHOOSE i \in 1..last : list[i] = s /\ \A j \in (i + 1)..last : list[j] # s
    IN IF list[last] = s THEN SubSeq(list, 1, last - 1)
       ELSE SubSeq([list EXCEPT ![at] = list[last]], 1, last - 1)

\* Decay_Series that marks the series and leaves its data allocated.
Decay_Series_KeepData(pools, ser, ballast) ==
    [pools |-> pools, ballast |-> ballast, cleaned |-> 0,
     ser |-> [ser EXCEPT !.inaccessible = TRUE]]

\* Decay_Series that calls the cleaner for any HANDLE! in the head cell.
Decay_Series_AnyHandle(pools, ser, ballast) ==
    [pools |-> IF ~ser.dynamic THEN pools
               ELSE IF ser.data # 0
               THEN [pools EXCEPT ![DATA_POOL] =
                        Free_Unbiased_Series_Data(pools[DATA_POOL], ser.data)]
               ELSE [pools EXCEPT ![SYSTEM_POOL].has = @ - ser.size],
     ballast |-> IF ser.dynamic
                 THEN (IF ballast + ser.size > INT32_MAX THEN INT32_MAX
                       ELSE ballast + ser.size)
                 ELSE ballast,
     cleaned |-> IF ~ser.dynamic /\ ser.handle # "none" /\ ser.cleaner
                 THEN 1 ELSE 0,
     ser |-> [ser EXCEPT !.inaccessible = TRUE]]

\* Decay_Series(s): dynamic data goes back to its pool or to the system and
\* the ballast gets its size back; a singular array whose head cell is a
\* HANDLE! pointing back at the array has its cleaner called (cleaned: the
\* number of calls); the series is marked INACCESSIBLE, its data pointer
\* left as it was.
Decay_Series(pools, ser, ballast) ==
    [pools |-> IF ~ser.dynamic THEN pools
               ELSE IF ser.data # 0
               THEN [pools EXCEPT ![DATA_POOL] =
                        Free_Unbiased_Series_Data(pools[DATA_POOL], ser.data)]
               ELSE [pools EXCEPT ![SYSTEM_POOL].has = @ - ser.size],
     ballast |-> IF ser.dynamic
                 THEN (IF ballast + ser.size > INT32_MAX THEN INT32_MAX
                       ELSE ballast + ser.size)
                 ELSE ballast,
     cleaned |-> IF ~ser.dynamic /\ ser.handle = "self" /\ ser.cleaner
                 THEN 1 ELSE 0,
     ser |-> [ser EXCEPT !.inaccessible = TRUE]]

\* GC_Kill_Series(s): the pools, series table, ballast and signal after
GC_Kill_Series(pools, sers, s, ballast, signal) ==
    LET d == IF sers[s].inaccessible
             THEN [pools |-> pools, ballast |-> ballast, cleaned |-> 0,
                   ser |-> sers[s]]
             ELSE Decay_Series(pools, sers[s], ballast)
    IN [pools |-> [d.pools EXCEPT ![SER_POOL] = Free_Node(d.pools[SER_POOL], s)],
        series |-> [sers EXCEPT ![s] = NoSeries],
        ballast |-> d.ballast,
        cleaned |-> d.cleaned,
        signal |-> IF d.ballast > 0 THEN FALSE ELSE signal]

IS_SERIES_MANAGED(s) == Mem_Pools[SER_POOL].hdr[s] = NODE_FLAG_MANAGED
LiveSeries == {s \in 1..Len(Mem_Pools[SER_POOL].hdr) :
                  Mem_Pools[SER_POOL].hdr[s] \in {NODE_FLAG_NODE, NODE_FLAG_MANAGED}}

\* Make_Series_Core(capacity, wide, flags): content "inline", "pooled" or
\* "unpooled" by capacity * wide; not managed: tracked in GC_Manuals
Make_Series_Core(managed, content) ==
    /\ makes < MaxMakes
    /\ LET mk == Make_Node(Mem_Pools[SER_POOL])
           s == mk.node
           serp == [mk.pool EXCEPT !.hdr[s] =
                       IF managed THEN NODE_FLAG_MANAGED ELSE NODE_FLAG_NODE]
           b1 == Ballast_Alloc(GC_Ballast, SIG_RECYCLE, SIZEOF_REBSER)
           a == IF content = "inline"
                THEN [pool |-> Mem_Pools[DATA_POOL], node |-> 0, filled |-> FALSE,
                      size |-> 0, ballast |-> b1.ballast, signal |-> b1.signal]
                ELSE Series_Data_Alloc(Mem_Pools[DATA_POOL], content = "pooled",
                                       b1.ballast, b1.signal)
           e == IF ~managed /\ SER_FULL(GC_Manuals)
                THEN Extend_Manuals(GC_Manuals, a.pool, Prior_Expand,
                                    a.ballast, a.signal)
                ELSE [manuals |-> GC_Manuals, pool |-> a.pool,
                      prior |-> Prior_Expand,
                      ballast |-> a.ballast, signal |-> a.signal]
       IN /\ Mem_Pools' = [Mem_Pools EXCEPT
                            ![SER_POOL] = serp,
                            ![DATA_POOL] = e.pool,
                            ![SYSTEM_POOL].has =
                                IF content = "unpooled" THEN @ + a.size ELSE @]
          /\ series' = [i \in 1..Len(serp.hdr) |->
                           IF i = s
                           THEN [dynamic |-> content # "inline", data |-> a.node,
                                 size |-> a.size, inaccessible |-> FALSE,
                                 handle |-> "none", cleaner |-> FALSE]
                           ELSE IF i <= Len(series) THEN series[i] ELSE NoSeries]
          /\ GC_Manuals' = IF managed THEN GC_Manuals
                           ELSE [e.manuals EXCEPT !.list = Append(@, s)]
          /\ Prior_Expand' = e.prior
          /\ GC_Ballast' = e.ballast
          /\ SIG_RECYCLE' = e.signal
          /\ lastOp' = [op |-> "make", s |-> s, managed |-> managed,
                        filled |-> mk.filled,
                        empty |-> (Mem_Pools[SER_POOL].first = 0),
                        head |-> Mem_Pools[SER_POOL].first,
                        data_filled |-> a.filled,
                        data_empty |-> (Mem_Pools[DATA_POOL].first = 0),
                        before |-> GC_Ballast,
                        extended |-> (~managed /\ SER_FULL(GC_Manuals))]
    /\ makes' = makes + 1
    /\ UNCHANGED NDEBUG

\* Manage_Series(s) of a tracked series
Manage_Series(s) ==
    /\ s \in LiveSeries
    /\ s # 1
    /\ ~IS_SERIES_MANAGED(s)
    /\ Mem_Pools' = [Mem_Pools EXCEPT ![SER_POOL].hdr[s] = NODE_FLAG_MANAGED]
    /\ GC_Manuals' = [GC_Manuals EXCEPT !.list = Untrack_Manual_Series(@, s)]
    /\ lastOp' = [op |-> "manage", s |-> s,
                  was_last |-> (GC_Manuals.list[Len(GC_Manuals.list)] = s),
                  others |-> Len(GC_Manuals.list) - 1]
    /\ UNCHANGED <<NDEBUG, series, Prior_Expand, GC_Ballast, SIG_RECYCLE, makes>>

\* Free_Unmanaged_Series(s) of a tracked series
Free_Unmanaged_Series(s) ==
    /\ s \in LiveSeries
    /\ s # 1
    /\ ~IS_SERIES_MANAGED(s)
    /\ LET k == GC_Kill_Series(Mem_Pools, series, s, GC_Ballast, SIG_RECYCLE) IN
       /\ Mem_Pools' = k.pools
       /\ series' = k.series
       /\ GC_Ballast' = k.ballast
       /\ SIG_RECYCLE' = k.signal
    /\ GC_Manuals' = [GC_Manuals EXCEPT !.list = Untrack_Manual_Series(@, s)]
    /\ lastOp' = [op |-> "free", s |-> s,
                  handle |-> series[s].handle, cleaner |-> series[s].cleaner,
                  decayed |-> series[s].inaccessible,
                  cleaned |-> GC_Kill_Series(Mem_Pools, series, s, GC_Ballast,
                                             SIG_RECYCLE).cleaned,
                  was_last |-> (GC_Manuals.list[Len(GC_Manuals.list)] = s),
                  others |-> Len(GC_Manuals.list) - 1]
    /\ Prior_Expand' = IF series[s].inaccessible THEN Prior_Expand
                       ELSE Forget_Expansion(Prior_Expand, s)
    /\ UNCHANGED <<NDEBUG, makes>>

\* The collector sweeps a managed series: GC_Kill_Series(s)
Sweep_Series(s) ==
    /\ s \in LiveSeries
    /\ IS_SERIES_MANAGED(s)
    /\ LET k == GC_Kill_Series(Mem_Pools, series, s, GC_Ballast, SIG_RECYCLE) IN
       /\ Mem_Pools' = k.pools
       /\ series' = k.series
       /\ GC_Ballast' = k.ballast
       /\ SIG_RECYCLE' = k.signal
    /\ lastOp' = [op |-> "sweep", s |-> s,
                  handle |-> series[s].handle, cleaner |-> series[s].cleaner,
                  decayed |-> series[s].inaccessible,
                  cleaned |-> GC_Kill_Series(Mem_Pools, series, s, GC_Ballast,
                                             SIG_RECYCLE).cleaned]
    /\ Prior_Expand' = IF series[s].inaccessible THEN Prior_Expand
                       ELSE Forget_Expansion(Prior_Expand, s)
    /\ UNCHANGED <<NDEBUG, GC_Manuals, makes>>

\* s still has a data block of its own: a pool node in use that no other
\* accessible series (nor the manuals list) has as its data, or an unpooled
\* block (those are covered by the count of SYSTEM_POOL)
HoldsPooledBlock(s) ==
    /\ series[s].dynamic
    /\ series[s].data # 0
    /\ Mem_Pools[DATA_POOL].hdr[series[s].data] # FREED_SERIES_BYTE
    /\ GC_Manuals.data # series[s].data
    /\ \A u \in LiveSeries \ {1, s} :
          ~(series[u].dynamic /\ ~series[u].inaccessible
            /\ series[u].data = series[s].data)

\* FREE of the series a cell holds (an ANY-SERIES! cell holds a managed
\* series; the singular array of a handle is held by a HANDLE! cell)
free(s, read_only) ==
    /\ s \in LiveSeries
    /\ IS_SERIES_MANAGED(s)
    /\ LET error == IF series[s].handle = "self" THEN "not-implemented"
                    ELSE IF series[s].inaccessible THEN "already-freed"
                    ELSE IF read_only THEN "read-only"
                    ELSE "none"
           d == Decay_Series(Mem_Pools, series[s], GC_Ballast)
       IN /\ lastOp' = [op |-> "free_native", s |-> s, error |-> error]
          /\ IF error = "none"
             THEN /\ Mem_Pools' = d.pools
                  /\ series' = [series EXCEPT ![s] = d.ser]
                  /\ GC_Ballast' = d.ballast
                  /\ Prior_Expand' = Forget_Expansion(Prior_Expand, s)
             ELSE UNCHANGED <<Mem_Pools, series, GC_Ballast, Prior_Expand>>
    /\ UNCHANGED <<NDEBUG, GC_Manuals, SIG_RECYCLE, makes>>

\* Cell_Array(v) and the read or write of the data that follows it: a
\* data-freed error when the series is INACCESSIBLE
Cell_Array(s) ==
    /\ s \in LiveSeries
    /\ IS_SERIES_MANAGED(s)
    /\ lastOp' = [op |-> "access", s |-> s,
                  error |-> IF series[s].inaccessible THEN "data-freed"
                            ELSE "none",
                  touched |-> ~series[s].inaccessible,
                  inaccessible |-> series[s].inaccessible,
                  in_node |-> ~series[s].dynamic,
                  pooled |-> HoldsPooledBlock(s)]
    /\ UNCHANGED <<NDEBUG, Mem_Pools, series, GC_Manuals, Prior_Expand,
                   GC_Ballast, SIG_RECYCLE, makes>>

\* the handles tried: the handle's own array with and without a cleaner, and
\* an array that holds a handle made for another array and has a cleaner
HandleInits == {<<"self", TRUE>>, <<"self", FALSE>>, <<"other", TRUE>>}

\* A HANDLE! cell is written into the head of a singular array: one that
\* points back at the array (the handle's own array, which may have a
\* cleaner) or one made for another array
Init_Handle(s, target, cleaner) ==
    /\ s \in LiveSeries
    /\ IS_SERIES_MANAGED(s)
    /\ ~series[s].dynamic
    /\ ~series[s].inaccessible
    /\ series[s].handle = "none"
    /\ series' = [series EXCEPT ![s].handle = target, ![s].cleaner = cleaner]
    /\ lastOp' = [op |-> "handle", s |-> s]
    /\ UNCHANGED <<NDEBUG, Mem_Pools, GC_Manuals, Prior_Expand, GC_Ballast,
                   SIG_RECYCLE, makes>>

\* The state Startup_Pools leaves: GC_Manuals is series 1, made as if
\* managed (so it is not in its own list), its flag then taken off.
InitPool ==
    /\ NDEBUG \in BOOLEAN
    /\ LET empty == [first |-> 0, last |-> 0, next |-> <<>>, hdr |-> <<>>,
                     stamp |-> <<>>, segs |-> 0, free |-> 0, has |-> 0,
                     agreed |-> TRUE]
           sp == Make_Node(empty)
           dp == Make_Node(empty)
       IN Mem_Pools = [p \in PoolIds \cup {SYSTEM_POOL} |->
                          IF p = SER_POOL
                          THEN [sp.pool EXCEPT !.hdr[sp.node] = NODE_FLAG_NODE]
                          ELSE IF p = DATA_POOL
                          THEN [dp.pool EXCEPT !.hdr[dp.node] = DATA_BYTES]
                          ELSE [has |-> 0]]
    /\ series = [i \in 1..POOL_UNITS |->
                    IF i = 1 THEN [dynamic |-> TRUE, data |-> 1,
                                   size |-> POOL_WIDE, inaccessible |-> FALSE,
                                   handle |-> "none", cleaner |-> FALSE]
                    ELSE NoSeries]
    /\ GC_Manuals = [list |-> <<>>, rest |-> ManualsCapacity, data |-> 1]
    /\ Prior_Expand = [k \in 1..MAX_EXPAND_LIST |->
                          IF k = 1 THEN EXPAND_SENTINEL ELSE 0]
    /\ GC_Ballast = InitialBallast
    /\ SIG_RECYCLE = FALSE
    /\ makes = 0
    /\ lastOp = [op |-> "startup"]

NextPool ==
    \/ \E m \in BOOLEAN, c \in {"inline", "pooled", "unpooled"} :
          Make_Series_Core(m, c)
    \/ \E s \in LiveSeries : Manage_Series(s)
    \/ \E s \in LiveSeries : Free_Unmanaged_Series(s)
    \/ \E s \in LiveSeries : Sweep_Series(s)

\* the life of the series that cells hold, which are managed: made, given a
\* handle, accessed, freed by FREE, collected
NextDecay ==
    \/ \E c \in {"inline", "pooled", "unpooled"} : Make_Series_Core(TRUE, c)
    \/ \E s \in LiveSeries : Sweep_Series(s)
    \/ \E s \in LiveSeries, r \in BOOLEAN : free(s, r)
    \/ \E s \in LiveSeries : Cell_Array(s)
    \/ \E s \in LiveSeries, h \in HandleInits : Init_Handle(s, h[1], h[2])

\* ------------------------------------------------------------------------
\* Claims about the pools and the manuals list
\* ------------------------------------------------------------------------
OnManuals(s) == \E i \in 1..Len(GC_Manuals.list) : GC_Manuals.list[i] = s

\* C7: a live series other than the manuals list itself is on the manuals
\* list exactly when it is unmanaged; it is there once; every entry is a live
\* series; and a free or a promotion to managed takes away one entry, the
\* one of the series it was given.
C7_ManualsIffUnmanaged ==
    /\ \A s \in LiveSeries \ {1} : OnManuals(s) <=> ~IS_SERIES_MANAGED(s)
    /\ \A i, j \in 1..Len(GC_Manuals.list) :
          i # j => GC_Manuals.list[i] # GC_Manuals.list[j]
    /\ \A i \in 1..Len(GC_Manuals.list) : GC_Manuals.list[i] \in LiveSeries \ {1}
    /\ lastOp.op \in {"manage", "free"} =>
          /\ Len(GC_Manuals.list) = lastOp.others
          /\ ~OnManuals(lastOp.s)

\* a series that was not the last entry has just been promoted, others stay;
\* the list has been extended before
C7_Witness ==
    /\ lastOp.op = "manage"
    /\ ~lastOp.was_last
    /\ lastOp.others >= 2
    /\ Recently_Expanded(Prior_Expand, 1)

\* C8: every node on the free list of a pool has the free pattern in its
\* header.
C8_FreeListNodesAreFree ==
    \A p \in PoolIds :
        LET fl == FreeList(Mem_Pools[p]) IN
        \A i \in 1..Len(fl) : Mem_Pools[p].hdr[fl[i]] = FREED_SERIES_BYTE

\* each pool holds on its free list a node that was in use and then freed
C8_Witness ==
    \A p \in PoolIds :
        LET fl == FreeList(Mem_Pools[p]) IN
        \E i \in 1..Len(fl) : Mem_Pools[p].stamp[fl[i]] > 0

\* the segment a node belongs to
SegmentOf(n) == ((n - 1) \div POOL_UNITS) + 1

NodeTaken(p) ==
    IF p = SER_POOL THEN lastOp'.s ELSE series'[lastOp'.s].data

TakesFromEmpty(p) ==
    /\ lastOp'.op = "make"
    /\ Mem_Pools[p].first = 0
    /\ p = DATA_POOL => /\ series'[lastOp'.s].dynamic
                        /\ series'[lastOp'.s].data # 0
                        /\ ~lastOp'.extended

C26_FillPoolAddsOneSegment ==
    [][\A p \in PoolIds :
          TakesFromEmpty(p)
            => LET pl == Mem_Pools[p]
                   after == Mem_Pools'[p]
                   base == Len(pl.next)
                   f == Fill_Pool(pl)
               IN /\ f.segs = pl.segs + 1
                  /\ Len(f.next) = base + POOL_UNITS
                  /\ Len(f.hdr) = base + POOL_UNITS
                  /\ FreeList(f) = [i \in 1..POOL_UNITS |-> base + i]
                  /\ \A n \in (base + 1)..(base + POOL_UNITS) :
                        f.hdr[n] = FREED_SERIES_BYTE
                  /\ f.has = pl.has + POOL_UNITS
                  /\ f.free = pl.free + POOL_UNITS
                  /\ NodeTaken(p) \in (base + 1)..(base + POOL_UNITS)
                  /\ after.segs = f.segs
                  /\ after.has = f.has
                  /\ after.free = f.free - 1
                  /\ FreeList(after) = Tail(FreeList(f))
                  /\ \A n \in 1..Len(FreeList(after)) :
                        after.hdr[FreeList(after)[n]] = FREED_SERIES_BYTE]_vars

C26_Witness ==
    /\ lastOp.op = "make"
    /\ lastOp.empty
    /\ lastOp.filled
    /\ Mem_Pools[SER_POOL].segs >= 2
    /\ Mem_Pools[SER_POOL].free = POOL_UNITS - 1

\* C32: the free counter of every pool equals the number of nodes reachable
\* on its free list, after any sequence of Make_Node, Free_Node, Fill_Pool
\* and pooled series-data allocations and frees (what Check_Memory_Debug
\* panics on).
C32_FreeCountIsFreeListLength ==
    \A p \in PoolIds : Mem_Pools[p].free = Len(FreeList(Mem_Pools[p]))

\* both pools were filled twice and hold freed nodes on their free lists
C32_Witness ==
    \A p \in PoolIds :
        /\ Mem_Pools[p].segs >= 2
        /\ Mem_Pools[p].free >= 2
        /\ \E n \in 1..Len(Mem_Pools[p].hdr) :
              /\ Mem_Pools[p].stamp[n] > 0
              /\ Mem_Pools[p].hdr[n] = FREED_SERIES_BYTE

\* pool->last is the last node of the free list, with a null next link
TailIsLast(pl) ==
    pl.last # 0 =>
        LET fl == FreeList(pl)
        IN /\ Len(fl) > 0
           /\ fl[Len(fl)] = pl.last
           /\ pl.next[pl.last] = 0

\* C40: whenever Fill_Pool runs on a pool (the pool gets one more segment),
\* pool->first and pool->last were both null or both non-null; and at all
\* times a non-null pool->last is the last node reachable from pool->first,
\* its next link null.
C40_HeadAndTailAgree ==
    \A p \in PoolIds :
        /\ TailIsLast(Mem_Pools[p])
        /\ Mem_Pools[p].agreed

\* Fill_Pool has run on a pool whose nodes had been handed out and freed
C40_Witness ==
    \E p \in PoolIds :
        /\ Mem_Pools[p].segs >= 2
        /\ Mem_Pools[p].last # 0
        /\ \E n \in 1..Len(Mem_Pools[p].hdr) :
              Mem_Pools[p].stamp[n] > 0 /\ Mem_Pools[p].stamp[n] < Mem_Pools[p].segs

\* C10: when Make_Series_Core returns with the ballast at zero or below (its
\* header or data allocation took it there or found it there), SIG_RECYCLE
\* is set.
C10_BallastSetsRecycle ==
    (lastOp.op = "make" /\ GC_Ballast <= 0) => SIG_RECYCLE

\* an allocation took the ballast from above zero to exactly zero
C10_Witness ==
    /\ lastOp.op = "make"
    /\ lastOp.before > 0
    /\ GC_Ballast = 0
    /\ SIG_RECYCLE

\* the bytes of the unpooled blocks of the accessible series
RECURSIVE UnpooledBytes(_)
UnpooledBytes(S) ==
    IF S = {} THEN 0
    ELSE LET s == CHOOSE x \in S : TRUE IN
         (IF series[s].dynamic /\ series[s].data = 0 /\ ~series[s].inaccessible
          THEN series[s].size ELSE 0) + UnpooledBytes(S \ {s})

\* C11: an INACCESSIBLE series holds no data block: its pool node is free
\* or belongs to another series, every unpooled block counted in SYSTEM_POOL
\* belongs to an accessible series; and an access through a cell to an
\* INACCESSIBLE series raises the data-freed error and touches no data,
\* while FREE refuses a series that is already INACCESSIBLE.
C11_InaccessibleHasNoData ==
    /\ \A s \in LiveSeries :
          series[s].inaccessible => ~HoldsPooledBlock(s)
    /\ Mem_Pools[SYSTEM_POOL].has = UnpooledBytes(LiveSeries \ {1})
    /\ lastOp.op = "access" =>
          /\ lastOp.inaccessible => (lastOp.error = "data-freed" /\ ~lastOp.touched)
          /\ lastOp.touched => (lastOp.in_node \/ lastOp.pooled
                                \/ Mem_Pools[SYSTEM_POOL].has > 0)
    /\ (lastOp.op = "free_native" /\ lastOp.error = "none") =>
          series[lastOp.s].inaccessible

\* a series with pooled data was freed by FREE, its node given to a new
\* series, and an access to the freed series then raised the error
C11_Witness ==
    /\ lastOp.op = "access"
    /\ lastOp.error = "data-freed"
    /\ series[lastOp.s].dynamic
    /\ series[lastOp.s].data # 0
    /\ \E u \in LiveSeries \ {1, lastOp.s} :
          /\ series[u].dynamic /\ ~series[u].inaccessible
          /\ series[u].data = series[lastOp.s].data

\* C20: when a singular array with a HANDLE! in its head cell and a cleaner
\* is collected, the cleaner is called once if the handle points back at
\* the array and not at all if it was made for another array.
C20_CleanerIffSelf ==
    (/\ lastOp.op \in {"sweep", "free"}
     /\ lastOp.handle # "none"
     /\ lastOp.cleaner
     /\ ~lastOp.decayed)
       => (lastOp.cleaned = (IF lastOp.handle = "self" THEN 1 ELSE 0))

\* a handle array with a cleaner was collected and the cleaner ran
C20_Witness ==
    /\ lastOp.op = "sweep"
    /\ lastOp.handle = "self"
    /\ lastOp.cleaner
    /\ lastOp.cleaned = 1

\* ------------------------------------------------------------------------
\* Expand_Series (m-pools.c), on arrays: wide is sizeof(REBVAL)
\* ------------------------------------------------------------------------
SIZEOF_REBVAL == 32      \* wide of an array
INLINE_REST == 2         \* SER_REST of an array whose cell lives in the node
\* deltas are written as signed 32-bit numbers: bit 0x80000000 is set exactly
\* in the negative ones
PAST_2GB == -1           \* the delta 0xFFFFFFFF
NULL_DATA == -1          \* content.dynamic.data when it is NULL

\* A cell holds an element (a positive number that tells the elements
\* apart), the END marker, the trash Prep_Non_Stack_Cell leaves, or what the
\* memory held before it was part of the series.  cells are the cells from
\* the data pointer to the terminator.
END_CELL == -1           \* what TERM_SERIES writes
TRASH_CELL == -2         \* what Prep_Non_Stack_Cell writes
STALE_CELL == -3         \* memory that was bias, or that the memmove left behind

NoExtent == [len |-> 0, rest |-> 0, bias |-> 0, fixed |-> FALSE,
             cells |-> << >>]

\* ARR_AT(s, n): the cell at index n from the data pointer; the capacity
\* past the terminator is as Series_Data_Alloc prepared it
ARR_AT(e, n) ==
    IF n + 1 <= Len(e.cells) THEN e.cells[n + 1] ELSE TRASH_CELL

\* the elements of the series, from the data pointer up to len
Elements(e) == [n \in 1..e.len |-> ARR_AT(e, n - 1)]

\* the cells an expansion opens: the debug build preps them
Opened == IF NDEBUG THEN STALE_CELL ELSE TRASH_CELL

\* the cells after the head insertion optimization: the data pointer is
\* moved back over delta cells of the bias, nothing else is written
Head_Bias_Cells(e, delta) ==
    [k \in 1..delta |-> Opened] \o e.cells

\* an expansion that opens the cells past the tail instead of at index
In_Place_Cells_NoShift(e, index, delta) ==
    [k \in 1..(e.len + delta + 1) |->
        LET n == k - 1 IN
        IF n = e.len + delta THEN END_CELL
        ELSE IF n >= e.len THEN Opened
        ELSE ARR_AT(e, n)]

\* the cells after the memmove, SET_SERIES_LEN and TERM_SERIES of the
\* in-place path
In_Place_Cells(e, index, delta) ==
    [k \in 1..(e.len + delta + 1) |->
        LET n == k - 1 IN
        IF n = e.len + delta THEN END_CELL
        ELSE IF n >= index + delta THEN ARR_AT(e, n - delta)
        ELSE IF n >= index THEN Opened
        ELSE ARR_AT(e, n)]

\* the cells of the new allocation after the two memcpy and TERM_SERIES
New_Allocation_Cells(e, index, delta) ==
    [k \in 1..(e.len + delta + 1) |->
        LET n == k - 1 IN
        IF n < index THEN ARR_AT(e, n)
        ELSE IF n < index + delta THEN TRASH_CELL
        ELSE IF n = e.len + delta THEN END_CELL
        ELSE ARR_AT(e, n - delta)]

\* every element of the series has been written by the caller
Filled(e) == \A n \in 0..(e.len - 1) : ARR_AT(e, n) \in Nat
SerNodeIds == 1..(POOL_UNITS * (MaxMakes + 1))

\* Make_Series_Core(capacity, sizeof(REBVAL), SERIES_FLAG_ARRAY | flags) of a
\* managed array, flags with or without SERIES_FLAG_FIXED_SIZE; one array
\* is followed at a time
Make_Array(content, fixed) ==
    /\ LiveSeries = {1}
    /\ Make_Series_Core(TRUE, content)
    /\ extent' = [extent EXCEPT ![lastOp'.s] =
                     [len |-> 0,
                      rest |-> IF content = "inline" THEN INLINE_REST
                               ELSE POOL_WIDE \div SIZEOF_REBVAL,
                      bias |-> 0, fixed |-> fixed,
                      cells |-> << END_CELL >>]]

\* Removing n elements at the head of a dynamic series leaves them as bias
Remove_Series_Head(s, n) ==
    /\ s \in LiveSeries \ {1}
    /\ series[s].dynamic
    /\ series[s].data # NULL_DATA
    /\ n \in 1..extent[s].len
    /\ Filled(extent[s])
    /\ extent' = [extent EXCEPT ![s].len = @ - n, ![s].rest = @ - n,
                                ![s].bias = @ + n,
                                ![s].cells = SubSeq(@, n + 1, Len(@))]
    /\ lastOp' = [op |-> "remove", s |-> s]
    /\ UNCHANGED <<NDEBUG, Mem_Pools, series, GC_Manuals, Prior_Expand,
                   GC_Ballast, SIG_RECYCLE, makes>>

\* an Expand_Series without the head insertion optimization
Expand_Path_NoHeadBias(s, index, delta) ==
    IF delta < 0 THEN "past-end"
    ELSE IF delta = 0 THEN "nothing"
    ELSE IF (extent[s].len + delta + 1) * SIZEOF_REBVAL
               <= extent[s].rest * SIZEOF_REBVAL
    THEN "in-place"
    ELSE IF extent[s].fixed THEN "locked"
    ELSE "new-allocation"

\* Expand_Series(s, index, delta): which way it goes
Expand_Path(s, index, delta) ==
    IF delta < 0 THEN "past-end"
    ELSE IF delta = 0 THEN "nothing"
    ELSE IF series[s].dynamic /\ index = 0 /\ extent[s].bias >= delta
    THEN "head-bias"
    ELSE IF (extent[s].len + delta + 1) * SIZEOF_REBVAL
               <= extent[s].rest * SIZEOF_REBVAL
    THEN "in-place"
    ELSE IF extent[s].fixed THEN "locked"
    ELSE "new-allocation"

\* what `s->content.dynamic.data = NULL` leaves of the cells: the pointer
\* shares its bytes with the first cell of a series that is not dynamic
Nulled_Cells(dynamic, e) ==
    IF dynamic \/ Len(e.cells) = 0 THEN e.cells
    ELSE [k \in 1..Len(e.cells) |-> IF k = 1 THEN STALE_CELL ELSE e.cells[k]]

\* Expand_Series(s, index, delta); oom is whether the system has no memory
\* for an allocation too big for the pools (ALLOC_N gives NULL and
\* Series_Data_Alloc FALSE; a pool that cannot be filled panics instead)
Expand_Series(s, index, delta, oom) ==
    /\ s \in LiveSeries \ {1}
    /\ ~series[s].inaccessible
    /\ series[s].data # NULL_DATA
    /\ index <= extent[s].len
    /\ Filled(extent[s])
    /\ delta >= 0 => extent[s].len + delta <= MaxLen
    /\ Expand_Path(s, index, delta) = "new-allocation" => makes < MaxMakes
    /\ oom => /\ Expand_Path(s, index, delta) = "new-allocation"
               /\ (extent[s].len + delta
                     + (IF Recently_Expanded(Prior_Expand, s) THEN extent[s].len + delta + 1
                        ELSE 1)) * SIZEOF_REBVAL > POOL_WIDE
    /\ LET len_old == extent[s].len
           x == IF Recently_Expanded(Prior_Expand, s) THEN len_old + delta + 1 ELSE 1
           want == len_old + delta + x
           pooled == want * SIZEOF_REBVAL <= POOL_WIDE
           path == IF oom THEN "no-memory" ELSE Expand_Path(s, index, delta)
           a == Series_Data_Alloc(Mem_Pools[DATA_POOL], pooled,
                                  GC_Ballast, SIG_RECYCLE)
           freed == IF series[s].dynamic /\ series[s].data # 0
                    THEN Free_Unbiased_Series_Data(a.pool, series[s].data)
                    ELSE a.pool
       IN /\ lastOp' = [op |-> "expand", s |-> s, delta |-> delta,
                        path |-> path, index |-> index,
                        fixed |-> extent[s].fixed,
                        error |-> IF path = "past-end" THEN "past-end"
                                  ELSE IF path = "locked" THEN "locked-series"
                                  ELSE IF path = "no-memory" THEN "no-memory"
                                  ELSE "none",
                        extent_old |-> extent[s], series_old |-> series[s]]
          /\ CASE path = "head-bias" ->
                    /\ extent' = [extent EXCEPT ![s].len = @ + delta,
                                                ![s].rest = @ + delta,
                                                ![s].bias = @ - delta,
                                                ![s].cells =
                                                    Head_Bias_Cells(extent[s], delta)]
                    /\ UNCHANGED <<Mem_Pools, series, Prior_Expand, GC_Ballast,
                                   SIG_RECYCLE, makes>>
               [] path = "in-place" ->
                    /\ extent' = [extent EXCEPT ![s].len = @ + delta,
                                                ![s].cells =
                                                    In_Place_Cells(extent[s], index, delta)]
                    /\ UNCHANGED <<Mem_Pools, series, Prior_Expand, GC_Ballast,
                                   SIG_RECYCLE, makes>>
               [] path = "new-allocation" ->
                    /\ extent' = [extent EXCEPT ![s] =
                                     [len |-> len_old + delta,
                                      rest |-> a.size \div SIZEOF_REBVAL,
                                      bias |-> 0, fixed |-> extent[s].fixed,
                                      cells |->
                                          New_Allocation_Cells(extent[s], index, delta)]]
                    /\ series' = [series EXCEPT ![s].dynamic = TRUE,
                                                ![s].data = a.node,
                                                ![s].size = a.size]
                    /\ Mem_Pools' = [Mem_Pools EXCEPT
                          ![DATA_POOL] = freed,
                          ![SYSTEM_POOL].has =
                              @ + (IF pooled THEN 0 ELSE a.size)
                                - (IF series[s].dynamic /\ series[s].data = 0
                                   THEN series[s].size ELSE 0)]
                    /\ Prior_Expand' = Note_Expansion(Prior_Expand, s)
                    /\ GC_Ballast' = a.ballast
                    /\ SIG_RECYCLE' = a.signal
                    /\ makes' = makes + 1
               [] path = "no-memory" ->
                    /\ series' = [series EXCEPT ![s].data = NULL_DATA]
                    /\ extent' = [extent EXCEPT ![s].cells =
                                     Nulled_Cells(series[s].dynamic, extent[s])]
                    /\ UNCHANGED <<Mem_Pools, Prior_Expand, GC_Ballast,
                                   SIG_RECYCLE, makes>>
               [] OTHER ->
                    UNCHANGED <<extent, Mem_Pools, series, Prior_Expand,
                                GC_Ballast, SIG_RECYCLE, makes>>
    /\ UNCHANGED <<NDEBUG, GC_Manuals>>

\* The caller writes the series once Expand_Series has opened cells in it:
\* element n gets the value n + 1.
Fill_Cells(e) ==
    [e EXCEPT !.cells = [k \in 1..Len(e.cells) |->
                            IF k <= e.len THEN k ELSE e.cells[k]]]

Fill(s) ==
    /\ s \in LiveSeries \ {1}
    /\ series[s].data # NULL_DATA
    /\ ~Filled(extent[s])
    /\ extent' = [extent EXCEPT ![s] = Fill_Cells(extent[s])]
    /\ lastOp' = [op |-> "fill", s |-> s]
    /\ UNCHANGED <<NDEBUG, Mem_Pools, series, GC_Manuals, Prior_Expand,
                   GC_Ballast, SIG_RECYCLE, makes>>

InitExpand == extent = [s \in SerNodeIds |-> NoExtent]

NextExpand ==
    \/ \E c \in {"inline", "pooled"}, f \in BOOLEAN : Make_Array(c, f)
    \/ \E s \in LiveSeries, n \in 1..MaxLen : Remove_Series_Head(s, n)
    \/ \E s \in LiveSeries : Fill(s)
    \/ \E s \in LiveSeries, i \in 0..MaxLen, d \in (0..MaxDelta) \cup {PAST_2GB},
          oom \in BOOLEAN :
          Expand_Series(s, i, d, oom)

\* C12: an Expand_Series of a FIXED_SIZE series by a delta that is not zero
\* raises the locked-series error and leaves the series as it was, whichever
\* way the growth would go.
C12_FixedSizeAlwaysLocked ==
    (/\ lastOp.op = "expand"
     /\ lastOp.fixed
     /\ lastOp.delta \in 1..MaxDelta)
       => /\ lastOp.error = "locked-series"
          /\ extent[lastOp.s] = lastOp.extent_old
          /\ series[lastOp.s] = lastOp.series_old

\* C33: when the reallocation that Expand_Series needs fails for lack of
\* memory, the out-of-memory error is raised with the series as it was
\* before the call: the same data pointer and content, the same length and
\* capacity, and the old data still owned by the series.
C33_ExpandFailureLeavesSeries ==
    lastOp.op = "expand" /\ lastOp.error = "no-memory"
        => /\ series[lastOp.s] = lastOp.series_old
           /\ extent[lastOp.s] = lastOp.extent_old

\* C24: a head insertion (Expand_Series at index 0 by delta) on a dynamic
\* series whose bias is at least delta reuses the bias: bias goes down by
\* delta, len and rest go up by delta, the data pointer moves back by delta
\* cells inside the same allocation, nothing is allocated or freed, and
\* the former elements and the terminator are found delta cells further
\* from the data pointer.
C24_HeadInsertionReusesBias ==
    [][(/\ lastOp'.op = "expand"
        /\ lastOp'.index = 0
        /\ lastOp'.delta \in 1..MaxDelta
        /\ series[lastOp'.s].dynamic
        /\ extent[lastOp'.s].bias >= lastOp'.delta)
          => LET s == lastOp'.s
                 delta == lastOp'.delta
             IN /\ extent'[s].bias = extent[s].bias - delta
                /\ extent'[s].len = extent[s].len + delta
                /\ extent'[s].rest = extent[s].rest + delta
                /\ UNCHANGED <<Mem_Pools, series, GC_Manuals, GC_Ballast,
                               SIG_RECYCLE, makes>>
                /\ \A n \in 0..extent[s].len :
                      ARR_AT(extent'[s], n + delta) = ARR_AT(extent[s], n)]_vars

C24_Witness ==
    /\ lastOp.op = "expand"
    /\ lastOp.path = "head-bias"
    /\ lastOp.extent_old.len >= 2
    /\ lastOp.extent_old.bias > lastOp.delta

\* C25: Expand_Series(s, index, delta) with index <= len, on the in-place
\* path and on the path that allocates anew, leaves a series of length
\* old len + delta whose elements before index are what they were, whose
\* former elements from index on sit delta cells further, which is
\* terminated at its length, and whose len + 1 is within its capacity.
C25_ExpandShiftsTail ==
    (/\ lastOp.op = "expand"
     /\ lastOp.path \in {"in-place", "new-allocation"})
       => LET new == extent[lastOp.s]
              old == lastOp.extent_old
              index == lastOp.index
              delta == lastOp.delta
          IN /\ new.len = old.len + delta
             /\ \A n \in 0..(index - 1) : ARR_AT(new, n) = ARR_AT(old, n)
             /\ \A n \in index..(old.len - 1) :
                   ARR_AT(new, n + delta) = ARR_AT(old, n)
             /\ ARR_AT(new, new.len) = END_CELL
             /\ new.len + 1 <= new.rest

C25_Witness ==
    /\ lastOp.op = "expand"
    /\ lastOp.path = "new-allocation"
    /\ lastOp.series_old.dynamic
    /\ lastOp.index >= 1
    /\ lastOp.extent_old.len > lastOp.index

\* ------------------------------------------------------------------------
\* Specialization (core/c-specialize.c): state
\* ------------------------------------------------------------------------
\* An action is its paramlist (the parameters a caller still sees), its
\* facade (every parameter of the underlying function, some flagged hidden)
\* and its exemplar (one slot per facade entry, or <<>> when it has none).
\* The data stack DS carries the ordered refinements of a path such as
\* :foo/b/c; the refinement used first is on top.

REBVAL(k, n, i) == [k |-> k, n |-> n, i |-> i, x |-> 0, m |-> FALSE]

Init_Nulled == REBVAL("null", "", 0)
Init_Blank == REBVAL("blank", "", 0)
Init_Logic(b) == REBVAL("logic", "", IF b THEN 1 ELSE 0)
Init_Integer(dsp) == REBVAL("integer", "", dsp)
Init_Any_Word_Bound(canon, index) == REBVAL("refinement", canon, index)
Init_Refinement(canon) == REBVAL("refinement", canon, 0)
Init_Text(t) == REBVAL("text", t, 0)
Prep_Stack_Cell == REBVAL("prep", "", 0)

\* the REB_0_PARTIAL pseudo-cell: dsp of the ordered refinement (0 if none),
\* index of the refinement's slot, and the "saw a void argument" mark
Init_Partial(dsp, index) ==
    [k |-> "partial", n |-> "", i |-> dsp, x |-> index, m |-> FALSE]

Mark_Void_Arg_Seen_Never(cell) == cell

Mark_Void_Arg_Seen(cell) == [cell EXCEPT !.m = TRUE]

IS_NULLED(cell) == cell.k = "null"
IS_LOGIC(cell) == cell.k = "logic"
IS_INTEGER(cell) == cell.k = "integer"
IS_REFINEMENT(cell) == cell.k = "refinement"
IS_BLANK(cell) == cell.k = "blank"
IS_WORD_UNBOUND(cell) == cell.i = 0

SetMax(S) == CHOOSE m \in S : \A o \in S : o <= m

\* foo: func [/a arg-a /b arg-b /c arg-c] [reduce [arg-a arg-b arg-c]]
Typeset(canon, class) == [canon |-> canon, class |-> class, hidden |-> FALSE]

FooParams ==
    << Typeset("a", "refinement"), Typeset("arg-a", "normal"),
       Typeset("b", "refinement"), Typeset("arg-b", "normal"),
       Typeset("c", "refinement"), Typeset("arg-c", "normal") >>

Foo == [paramlist |-> [i \in 1..Len(FooParams) |-> FooParams[i].canon],
        facade |-> FooParams,
        exemplar |-> << >>]

RefinementNames == {p.canon : p \in {FooParams[i] : i \in 1..Len(FooParams)}
                                  \cap [canon : {"a", "b", "c"},
                                        class : {"refinement"},
                                        hidden : {FALSE}]}

IS_REFINEMENT_SPECIALIZED(param) == param.hidden

DS_PUSH(ds, cell) == Append(ds, cell)
DS_DROP_TO_Nothing(ds, dsp) == ds

DS_DROP_TO(ds, dsp) == SubSeq(ds, 1, dsp)

\* the highest dsp in lo+1..hi whose cell satisfies the test, 0 if none
\* (the loops search from the top of the range downward and stop at a match)
TopMatch(ds, lo, hi, Test(_)) ==
    LET S == {d \in (lo + 1)..hi : Test(ds[d])} IN
    IF S = {} THEN 0 ELSE SetMax(S)

\* One turn of the loop of Make_Context_For_Action_Int_Partials over the
\* facade: fills varlist slot `index` and the matching alias (facade) entry.
Int_Partials_Step(act, st, index, lowest, highest) ==
    LET param == act.facade[index]
        hasEx == act.exemplar # << >>
        special == IF hasEx THEN act.exemplar[index] ELSE Init_Nulled
        Unspecialized(s) ==
            \* look for the canon among the caller's ordered refinements
            LET dsp == TopMatch(s.ds, lowest, highest,
                         LAMBDA c : IS_REFINEMENT(c) /\ c.n = param.canon)
            IN  IF dsp # 0
                THEN [s EXCEPT
                        !.ds[dsp] = Init_Any_Word_Bound(param.canon, index),
                        !.args[index] = Init_Integer(dsp),
                        !.alias[index].hidden = TRUE]
                ELSE [s EXCEPT !.args[index] = Init_Nulled,
                               !.bind = @ \cup {index}]
    IN
    IF param.class # "refinement"
    THEN [st EXCEPT !.args[index] = special,
                    !.bind = IF param.hidden THEN @ ELSE @ \cup {index}]
    ELSE IF ~hasEx THEN Unspecialized(st)
    ELSE IF IS_LOGIC(special) THEN [st EXCEPT !.args[index] = special]
    ELSE
        LET partial_index == special.i
            pushed ==
                IF IS_NULLED(special) THEN st
                ELSE LET ds1 == DS_PUSH(st.ds,
                                  Init_Any_Word_Bound(special.n, partial_index))
                     IN  [st EXCEPT
                            !.ds = ds1,
                            !.args = IF partial_index <= index
                                     THEN [@ EXCEPT ![partial_index] =
                                               Init_Integer(Len(ds1))]
                                     ELSE @]
        IN
        IF ~IS_NULLED(special) /\ partial_index = index THEN pushed
        ELSE IF IS_REFINEMENT_SPECIALIZED(param)
        THEN LET dsp == TopMatch(pushed.ds, highest, Len(pushed.ds),
                          LAMBDA c : c.i = index)
             IN  IF dsp # 0
                 THEN [pushed EXCEPT !.args[index] = Init_Integer(dsp)]
                 ELSE pushed     \* slot stays as prepared; filled by a later push
        ELSE Unspecialized(pushed)

RECURSIVE Int_Partials_Loop(_, _, _, _, _)
Int_Partials_Loop(act, st, index, lowest, highest) ==
    IF index > Len(act.facade) THEN st
    ELSE Int_Partials_Loop(act,
             Int_Partials_Step(act, st, index, lowest, highest),
             index + 1, lowest, highest)

\* Make_Context_For_Action_Int_Partials: a varlist and a facade copy (alias),
\* both with one slot per facade entry; ordered refinements left on the
\* stack, their positions noted as INTEGER! in the refinement slots.
Make_Context_For_Action_Int_Partials(act, ds, lowest) ==
    LET num_slots == Len(act.facade)
    IN  Int_Partials_Loop(act,
            [args |-> [i \in 1..num_slots |-> Prep_Stack_Cell],
             alias |-> act.facade,
             ds |-> ds,
             bind |-> {}],
            1, lowest, Len(ds))

\* Make_Context_For_Action: as above, then the pushed refinements are moved
\* into the hidden refinement slots from lowest to highest and the stack is
\* dropped back to lowest_ordered_dsp.
RECURSIVE Consolidate(_, _, _, _, _)
Consolidate(alias, args, ds, dsp, index) ==
    IF index > Len(alias) THEN args
    ELSE IF \/ ~alias[index].hidden
            \/ alias[index].class # "refinement"
            \/ IS_LOGIC(args[index])
    THEN Consolidate(alias, args, ds, dsp, index + 1)
    ELSE IF dsp = Len(ds)
    THEN Consolidate(alias, [args EXCEPT ![index] = Init_Nulled], ds, dsp,
                     index + 1)
    ELSE Consolidate(alias, [args EXCEPT ![index] = ds[dsp + 1]], ds, dsp + 1,
                     index + 1)

Make_Context_For_Action(act, ds, lowest) ==
    LET Moved(c) ==
            IF Len(c.ds) = lowest
            THEN [varlist |-> c.args, keylist |-> c.alias, ds |-> c.ds]
            ELSE [varlist |-> Consolidate(c.alias, c.args, c.ds, lowest, 1),
                  keylist |-> c.alias,
                  ds |-> DS_DROP_TO(c.ds, lowest)]
    IN  Moved(Make_Context_For_Action_Int_Partials(act, ds, lowest))

\* FINALIZE_REFINE_IF_FULFILLED that lets go of the evoked refinement whether
\* or not it was fulfilled.
FINALIZE_REFINE_IF_FULFILLED_AlwaysLetGo(w) ==
    IF w.refine # 0 /\ w.args[w.refine].k = "partial"
    THEN IF ~w.args[w.refine].m /\ w.args[w.refine].i # 0
         THEN [w EXCEPT !.ds[w.args[w.refine].i] = Init_Blank]
         ELSE IF w.refine = w.evoked THEN [w EXCEPT !.evoked = 0] ELSE w
    ELSE w

\* FINALIZE_REFINE_IF_FULFILLED: a partial that saw no void argument is
\* full; blank its ordered refinement, or stop counting it as the evoked one
FINALIZE_REFINE_IF_FULFILLED(w) ==
    IF w.refine # 0 /\ w.args[w.refine].k = "partial" /\ ~w.args[w.refine].m
    THEN IF w.args[w.refine].i # 0
         THEN [w EXCEPT !.ds[w.args[w.refine].i] = Init_Blank]
         ELSE IF w.refine = w.evoked THEN [w EXCEPT !.evoked = 0] ELSE w
    ELSE w

Param_Cell(param) == REBVAL("param", param.canon, 0)

\* One turn of the walk of Specialize_Action_Throws over the new facade:
\* unspecialized parameters are pushed for the paramlist, specialized ones
\* are flagged hidden, partial refinements are linked.
Specialize_Step(w0, index) ==
    LET class == w0.facade[index].class
        w == IF class = "refinement"
             THEN [FINALIZE_REFINE_IF_FULFILLED(w0) EXCEPT !.refine = index]
             ELSE w0
        param == w.facade[index]
        arg == w.args[index]
        refine == IF w.refine = 0 THEN Init_Nulled ELSE w.args[w.refine]
        unspecialized_arg(s) == [s EXCEPT !.ds = DS_PUSH(@, Param_Cell(param))]
        specialized_arg(s) == [s EXCEPT !.facade[index].hidden = TRUE]
    IN
    IF w0.error # "none" THEN w0
    ELSE IF class = "refinement"
    THEN IF IS_NULLED(arg) \/ (IS_INTEGER(arg) /\ IS_REFINEMENT_SPECIALIZED(param))
         THEN LET partial_dsp == IF IS_NULLED(arg) THEN 0 ELSE arg.i
                  linked == [w EXCEPT
                               !.partials = Append(@, index),
                               !.args[index] = Init_Partial(partial_dsp, index)]
              IN  IF partial_dsp = 0 THEN unspecialized_arg(linked)
                  ELSE specialized_arg(linked)
         ELSE IF IS_LOGIC(arg) THEN specialized_arg(w)
         ELSE [w EXCEPT !.error = "non-logic-refinement"]
    ELSE IF w.refine = 0
    THEN IF IS_NULLED(arg) THEN unspecialized_arg(w) ELSE specialized_arg(w)
    ELSE IF refine.k = "partial"
    THEN IF IS_NULLED(arg)
         THEN unspecialized_arg(
                  [w EXCEPT !.args[w.refine] = Mark_Void_Arg_Seen(@)])
         ELSE IF refine.i # 0 THEN specialized_arg(w)
         ELSE IF w.evoked = w.refine THEN specialized_arg(w)
         ELSE IF w.evoked # 0 THEN [w EXCEPT !.error = "ambiguous-partial"]
         ELSE specialized_arg(
                  [w EXCEPT !.facade[w.refine].hidden = TRUE,
                            !.ds = SubSeq(@, 1, Len(@) - 1),
                            !.evoked = w.refine])
    ELSE IF refine.i = 0       \* LOGIC! false
    THEN IF ~IS_NULLED(arg) THEN [w EXCEPT !.error = "bad-refine-revoke"]
         ELSE specialized_arg(w)
    ELSE IF ~IS_NULLED(arg) THEN unspecialized_arg(w)
    ELSE IF w.evoked # 0 THEN [w EXCEPT !.error = "ambiguous-partial"]
    ELSE unspecialized_arg(
             [w EXCEPT !.partials = Append(@, w.refine),
                       !.args[w.refine] =
                           Mark_Void_Arg_Seen(Init_Partial(0, w.refine)),
                       !.evoked = w.refine])

RECURSIVE Specialize_Walk(_, _)
Specialize_Walk(w, index) ==
    IF index > Len(w.facade) THEN w
    ELSE Specialize_Walk(Specialize_Step(w, index), index + 1)

\* try_higher_ordered: `++dsp` until the ordered refinement is not blank
try_higher_ordered_FromTop(higher) == SetMax(higher)

try_higher_ordered(higher) == CHOOSE d \in higher : \A o \in higher : d <= o

\* The loop over the linked REB_0_PARTIAL slots: each becomes TRUE, the
\* evoked refinement, the next ordered refinement that is not blank, or null.
RECURSIVE Convert_Partials(_, _, _)
Convert_Partials(p, rootkey, k) ==
    IF k > Len(p.partials) \/ p.error # "none" THEN p
    ELSE
    LET slot == p.partials[k]
        partial == p.args[slot]
        higher == {d \in (p.dsp + 1)..Len(p.ds) : ~IS_BLANK(p.ds[d])}
        next == try_higher_ordered(higher)
    IN
    IF ~partial.m /\ IS_REFINEMENT_SPECIALIZED(rootkey[partial.x])
    THEN Convert_Partials([p EXCEPT !.args[slot] = Init_Logic(TRUE)],
                          rootkey, k + 1)
    ELSE IF p.evoked # 0
    THEN Convert_Partials(
             [p EXCEPT !.args[slot] =
                           Init_Any_Word_Bound(rootkey[p.args[p.evoked].x].canon,
                                               p.args[p.evoked].x),
                       !.evoked = 0],
             rootkey, k + 1)
    ELSE IF higher = {}
    THEN Convert_Partials([p EXCEPT !.args[slot] = Init_Nulled,
                                    !.dsp = Len(p.ds)],
                          rootkey, k + 1)
    ELSE IF IS_WORD_UNBOUND(p.ds[next]) THEN [p EXCEPT !.error = "bad-refine"]
    ELSE Convert_Partials(
             [p EXCEPT !.args[slot] =
                           Init_Any_Word_Bound(p.ds[next].n, p.ds[next].i),
                       !.dsp = next],
             rootkey, k + 1)

\* The effect of running the def block on the frame: SET-WORD!s bound into
\* the frame assign their slots, the others assign variables outside it.
RECURSIVE Do_Any_Array_At(_, _, _, _)
Do_Any_Array_At(args, alias, bind, def) ==
    IF def = << >> THEN args
    ELSE LET hit == {i \in bind : alias[i].canon = Head(def).word} IN
         Do_Any_Array_At(
             IF hit = {} THEN args
             ELSE [args EXCEPT ![CHOOSE i \in hit : TRUE] = Head(def).value],
             alias, bind, Tail(def))

\* Make_Action(paramlist, dispatcher, facade, exemplar)
Make_Action_VisibleFacade(paramlist, facade, exemplar) ==
    [paramlist |-> paramlist,
     facade |-> SelectSeq(facade, LAMBDA p : ~p.hidden),
     exemplar |-> exemplar]

Make_Action(paramlist, facade, exemplar) ==
    [paramlist |-> paramlist, facade |-> facade, exemplar |-> exemplar]

\* Specialize_Action_Throws(out, specializee, name, def, lowest_ordered_dsp):
\* def is a sequence of assignments; `throws` says the block ends in a throw
Specialize_Action_Throws(specializee, def, throws, ds, lowest) ==
    LET \* the exits, once the partials p of the finalized walk f are converted
        Made(c, w, f, p) ==
            LET dsp_paramlist == Len(c.ds)
                paramlist == [i \in 1..(Len(f.ds) - dsp_paramlist - 1) |->
                                  f.ds[dsp_paramlist + 1 + i].n]
                leftover == {d \in (p.dsp + 1)..Len(p.ds) : ~IS_BLANK(p.ds[d])}
            IN
            IF throws
            THEN [thrown |-> TRUE, error |-> "none",
                  ds |-> DS_DROP_TO(c.ds, lowest), action |-> specializee]
            ELSE IF w.error # "none"
            THEN [thrown |-> FALSE, error |-> w.error, ds |-> w.ds,
                  action |-> specializee]
            ELSE IF p.error # "none"
            THEN [thrown |-> FALSE, error |-> p.error, ds |-> p.ds,
                  action |-> specializee]
            ELSE IF leftover # {}
            THEN [thrown |-> FALSE, error |-> "bad-refine", ds |-> p.ds,
                  action |-> specializee]
            ELSE [thrown |-> FALSE, error |-> "none",
                  ds |-> DS_DROP_TO(p.ds, lowest),
                  action |-> Make_Action(paramlist, f.facade, p.args)]
        \* the paramlist is popped, then the partial slots are converted
        Finalized(c, w, f) ==
            Made(c, w, f,
                 Convert_Partials(
                     [args |-> f.args, ds |-> DS_DROP_TO(f.ds, Len(c.ds)),
                      dsp |-> lowest, partials |-> f.partials,
                      evoked |-> f.evoked, error |-> "none"], f.facade, 1))
        Walked(c, w) ==
            Finalized(c, w, IF w.partials # << >>
                            THEN FINALIZE_REFINE_IF_FULFILLED(w) ELSE w)
        \* the def block runs on the frame c, then the facade is walked
        Framed(c) ==
            Walked(c, Specialize_Walk(
                          [args |-> Do_Any_Array_At(c.args, c.alias, c.bind, def),
                           facade |-> c.alias,
                           ds |-> DS_PUSH(c.ds, REBVAL("action", "", 0)),
                           refine |-> 0, partials |-> << >>, evoked |-> 0,
                           error |-> "none"], 1))
    IN  Framed(Make_Context_For_Action_Int_Partials(specializee, ds, lowest))

\* Get_If_Word_Or_Path_Throws with push_refines: the refinements of the
\* path go on the stack in the reverse order of their use, the first used
\* on top (append/dup/part has /DUP at DS_TOP and /PART under it)
RECURSIVE Push_Refines(_, _)
Push_Refines(ds, path) ==
    IF path = << >> THEN ds
    ELSE DS_PUSH(Push_Refines(ds, Tail(path)), Init_Refinement(Head(path)))

\* Paths and def blocks the model specializes with
Paths ==
    {p \in UNION {[1..n -> RefinementNames] : n \in 0..MaxPath} :
        \A i, j \in DOMAIN p : i # j => p[i] # p[j]}

Set_Word(word, value) == [word |-> word, value |-> value]

DefBlocks ==
    { << >>,
      << Set_Word("arg-b", Init_Text("v")) >>,
      << Set_Word("b", Init_Logic(TRUE)) >>,
      << Set_Word("b", Init_Logic(FALSE)) >>,
      << Set_Word("b", Init_Logic(TRUE)), Set_Word("arg-b", Init_Text("v")) >>,
      << Set_Word("b", Init_Logic(FALSE)), Set_Word("arg-b", Init_Text("v")) >>,
      << Set_Word("c", Init_Text("v")) >>,
      << Set_Word("a", Init_Logic(TRUE)), Set_Word("b", Init_Logic(TRUE)) >> }

\* bar: func [/p p1 p2 /q q1 q2] [...], a function whose refinements take
\* two arguments each, so that a block can fill one and leave the other
BarParams ==
    << Typeset("p", "refinement"), Typeset("p1", "normal"),
       Typeset("p2", "normal"),
       Typeset("q", "refinement"), Typeset("q1", "normal"),
       Typeset("q2", "normal") >>

Bar == [paramlist |-> [i \in 1..Len(BarParams) |-> BarParams[i].canon],
        facade |-> BarParams,
        exemplar |-> << >>]

BarPaths == {<< >>, << "p" >>, << "q" >>, << "p", "q" >>, << "q", "p" >>}

\* the blocks that set some of bar's words, refinements to true and
\* arguments to a text, in the order of the parameters
RECURSIVE Set_Words(_, _)
Set_Words(S, index) ==
    IF index > Len(BarParams) THEN << >>
    ELSE (IF index \in S
          THEN << Set_Word(BarParams[index].canon,
                           IF BarParams[index].class = "refinement"
                           THEN Init_Logic(TRUE) ELSE Init_Text("v")) >>
          ELSE << >>) \o Set_Words(S, index + 1)

BarBlocks == {Set_Words(S, 1) : S \in SUBSET (1..Len(BarParams))}

\* What a call of the action leaves in the frame of foo, which foo reduces:
\* the refinements in use are the callsite's (pushed as above) with the
\* exemplar's partial refinements pushed over them in slot order; callsite
\* arguments go to the refinements in use from the top of that stack down.
CallArgs == << "x", "y", "z" >>

RECURSIVE Push_Partials(_, _, _)
Push_Partials(exemplar, ds, index) ==
    IF index > Len(exemplar) THEN ds
    ELSE Push_Partials(exemplar,
             IF IS_REFINEMENT(exemplar[index])
             THEN DS_PUSH(ds, exemplar[index]) ELSE ds,
             index + 1)

Fulfill(act, path) ==
    LET in_use == Push_Partials(act.exemplar, Push_Refines(<< >>, path), 1)
        n == Len(in_use)
        Slot(canon) == CHOOSE i \in 1..Len(act.facade) :
                           act.facade[i].canon = canon
        Special(i) == IF act.exemplar = << >> THEN Init_Nulled
                      ELSE act.exemplar[i]
        Arg(canon) ==
            LET r == Slot(canon)
                used == {d \in 1..n : in_use[d].n = canon}
            IN  IF IS_LOGIC(Special(r))
                THEN IF Special(r).i = 1 THEN Special(r + 1) ELSE Init_Nulled
                ELSE IF used = {} THEN Init_Nulled
                ELSE Init_Text(CallArgs[n + 1 - SetMax(used)])
    IN  << Arg("a"), Arg("b"), Arg("c") >>

\* the refinements a caller may still name on a path to the action
Visible(act) == {act.paramlist[i] : i \in 1..Len(act.paramlist)}
                    \cap RefinementNames

\* ------------------------------------------------------------------------
\* Specialization: actions
\* ------------------------------------------------------------------------
\* A run builds an action by a chain of specializations and then looks at it
\* once: by a call, by MAKE FRAME!, or by a SPECIALIZE that yields no action
\* (it fails or its block throws).  None of those changes the action, so the
\* steps that could follow are the ones that could have been taken instead.
Building == {"none", "push", "specialize"}

InitSpecialize ==
    /\ DS_Array = << >>
    /\ specialized = Foo
    /\ history = [n |-> 0, paths_only |-> TRUE, order |-> << >>]
    /\ lastSpec = [op |-> "none"]

\* a caller with a value of its own on the data stack
DS_Push_Caller ==
    /\ lastSpec.op \in Building
    /\ Len(DS_Array) < MaxBase
    /\ DS_Array' = DS_PUSH(DS_Array, Init_Blank)
    /\ lastSpec' = [op |-> "push"]
    /\ UNCHANGED <<specialized, history>>

\* REBNATIVE(specialize): `specialize 'specializee/path def`
specialize(path, def, throws) ==
    /\ lastSpec.op \in Building
    /\ history.n < MaxSpecializations
    /\ \E r \in {Specialize_Action_Throws(specialized, def, throws,
                      Push_Refines(DS_Array, path), Len(DS_Array))} :
         IF ~r.thrown /\ r.error = "none"
         THEN /\ lastSpec' = [op |-> "specialize",
                              empty |-> (path = << >> /\ def = << >>),
                              thrown |-> FALSE, error |-> "none",
                              base |-> DS_Array, dsp |-> Len(r.ds)]
              /\ DS_Array' = r.ds
              /\ specialized' = r.action
              /\ history' =
                    LET only == history.paths_only /\ def = << >> IN
                    [n |-> history.n + 1, paths_only |-> only,
                     order |-> IF only THEN history.order \o path ELSE << >>]
         ELSE /\ lastSpec' = [op |-> "no-action", path |-> path, def |-> def,
                              thrown |-> r.thrown, error |-> r.error,
                              base |-> DS_Array, dsp |-> Len(r.ds)]
              /\ DS_Array' = IF r.thrown THEN r.ds
                             ELSE DS_DROP_TO(r.ds, Len(DS_Array))
              /\ UNCHANGED <<specialized, history>>

\* REBNATIVE(specialize) of the function bar: `specialize 'bar/path def`
specialize_bar(path, def) ==
    /\ lastSpec.op \in Building
    /\ history.n = 0
    /\ \E r \in {Specialize_Action_Throws(Bar, def, FALSE,
                      Push_Refines(DS_Array, path), Len(DS_Array))} :
         /\ lastSpec' = [op |-> "specialize-bar", path |-> path, def |-> def,
                         thrown |-> r.thrown, error |-> r.error,
                         base |-> DS_Array, dsp |-> Len(r.ds),
                         action |-> r.action]
         /\ DS_Array' = IF r.error = "none" THEN r.ds
                        ELSE DS_DROP_TO(r.ds, Len(DS_Array))
    /\ UNCHANGED <<specialized, history>>

\* MAKE_Frame: `make frame! :action`
MAKE_Frame ==
    LET lowest_ordered_dsp == Len(DS_Array)
        r == Make_Context_For_Action(specialized, DS_Array, lowest_ordered_dsp)
    IN
    /\ lastSpec.op \in Building
    /\ lastSpec' = [op |-> "make-frame", varlist |-> r.varlist,
                    keylist |-> r.keylist, base |-> DS_Array,
                    dsp |-> Len(r.ds), error |-> "none", thrown |-> FALSE]
    /\ DS_Array' = r.ds
    /\ UNCHANGED <<specialized, history>>

\* a call `action/path "x" "y" ...` with as many arguments as it takes
Call(path) ==
    /\ lastSpec.op \in Building
    /\ \A i \in DOMAIN path : path[i] \in Visible(specialized)
    /\ lastSpec' = [op |-> "call", path |-> path,
                    out |-> Fulfill(specialized, path)]
    /\ UNCHANGED <<DS_Array, specialized, history>>

NextSpecialize ==
    \/ DS_Push_Caller
    \/ \E path \in Paths, def \in DefBlocks : specialize(path, def, FALSE)
    \/ \E path \in Paths : specialize(path, << >>, TRUE)
    \/ \E path \in BarPaths, def \in BarBlocks : specialize_bar(path, def)
    \/ MAKE_Frame
    \/ \E path \in Paths : Call(path)

\* ------------------------------------------------------------------------
\* Specialization: claims
\* ------------------------------------------------------------------------
\* C13: partial specialization preserves order.  The partial refinements an
\* exemplar stores are taken at call time in the priority order of the
\* paths that made them: an action made by path-only specializations is
\* fulfilled as foo called with those paths followed by the callsite's, so
\* foo23: :foo/b/c called as foo23 "x" "y" gives [_ "x" "y"] and
\* foo32: :foo/c/b called as foo32 "x" "y" gives [_ "y" "x"].
C13_PartialOrderIsPriority ==
    (lastSpec.op = "call" /\ history.paths_only)
       => /\ lastSpec.out = Fulfill(Foo, history.order \o lastSpec.path)
          /\ (history.order = << "b", "c" >> /\ lastSpec.path = << >>)
                => lastSpec.out = << Init_Nulled, Init_Text("x"), Init_Text("y") >>
          /\ (history.order = << "c", "b" >> /\ lastSpec.path = << >>)
                => lastSpec.out = << Init_Nulled, Init_Text("y"), Init_Text("x") >>

C13_Witness ==
    /\ lastSpec.op = "call"
    /\ history = [n |-> 1, paths_only |-> TRUE, order |-> << "c", "b" >>]
    /\ lastSpec.path = << >>
    /\ lastSpec.out = << Init_Nulled, Init_Text("y"), Init_Text("x") >>
    /\ specialized.exemplar[1] = Init_Any_Word_Bound("b", 3)
    /\ specialized.exemplar[3] = Init_Any_Word_Bound("c", 5)

\* C14: for every action a, len(exemplar(a)) = len(facade(a)).  Every
\* exemplar a specialization stores, also one made from an action that was
\* specialized before, and every frame MAKE FRAME! builds for an action,
\* has exactly one slot per entry of the action's facade.
C14_ExemplarMatchesFacade ==
    /\ specialized.exemplar # << >>
          => Len(specialized.exemplar) = Len(specialized.facade)
    /\ lastSpec.op = "make-frame"
          => /\ Len(lastSpec.varlist) = Len(specialized.facade)
             /\ Len(lastSpec.keylist) = Len(specialized.facade)

C14_Witness ==
    /\ lastSpec.op = "specialize"
    /\ history.n = 2
    /\ Len(specialized.exemplar) = Len(FooParams)
    /\ Len(specialized.paramlist) < Len(specialized.facade)

\* r is the same action as a: it shows the same parameters, hides the same
\* ones, holds the same exemplar values (all null where a has no exemplar)
\* and every call of it is fulfilled as the same call of a
Equivalent(r, a) ==
    /\ r.paramlist = a.paramlist
    /\ r.facade = a.facade
    /\ r.exemplar = IF a.exemplar = << >>
                    THEN [i \in 1..Len(a.facade) |-> Init_Nulled]
                    ELSE a.exemplar
    /\ \A q \in Paths :
          (\A i \in DOMAIN q : q[i] \in Visible(a))
             => Fulfill(r, q) = Fulfill(a, q)

\* C15: specialize a [] == a.  A specialization of an action with no path
\* refinements and an empty block yields an equivalent action: it hides no
\* parameter, fixes no argument, records no partial refinement, and every
\* call of it behaves as the same call of a.
C15_EmptySpecializeIsSame ==
    [][(lastSpec'.op = "specialize" /\ lastSpec'.empty)
          => Equivalent(specialized', specialized)]_vars

\* C17: sub-steps restore the data stack.  MAKE FRAME! (Make_Context_For_
\* Action) and SPECIALIZE (Specialize_Action_Throws) return with the data
\* stack as the caller had it before the ordered refinements were pushed,
\* on every exit that does not fail, the one taken when the block throws
\* included.
C17_StackRestored ==
    (lastSpec.op \in {"specialize", "no-action", "make-frame"}
        /\ lastSpec.error = "none")
       => /\ lastSpec.dsp = Len(lastSpec.base)
          /\ DS_Array = lastSpec.base

C17_Witness ==
    /\ lastSpec.op = "no-action"
    /\ lastSpec.thrown
    /\ lastSpec.path # << >>
    /\ lastSpec.base # << >>
    /\ \E i \in DOMAIN specialized.exemplar :
          IS_REFINEMENT(specialized.exemplar[i])
    /\ DS_Array = lastSpec.base

\* what a block def does to a refinement of bar when no path is given: the
\* refinement is evoked when the block fills one of its arguments without
\* setting it, or sets it without filling both; the evocation stays pending
\* when an argument is left unfilled
Sets(def, word) == \E i \in DOMAIN def : def[i].word = word

Evokes(def, r) ==
    \/ ~Sets(def, r) /\ (Sets(def, r \o "1") \/ Sets(def, r \o "2"))
    \/ Sets(def, r) /\ ~(Sets(def, r \o "1") /\ Sets(def, r \o "2"))

Pending(def, r) ==
    Evokes(def, r) /\ ~(Sets(def, r \o "1") /\ Sets(def, r \o "2"))

RECURSIVE Partials_From(_, _)
Partials_From(exemplar, index) ==
    IF index > Len(exemplar) THEN << >>
    ELSE (IF IS_REFINEMENT(exemplar[index]) THEN << exemplar[index].n >>
          ELSE << >>) \o Partials_From(exemplar, index + 1)

Partials_Of(exemplar) == Partials_From(exemplar, 1)

\* the members of S in a sequence of names, in their order
RECURSIVE Only(_, _)
Only(names, S) ==
    IF names = << >> THEN << >>
    ELSE (IF Head(names) \in S THEN << Head(names) >> ELSE << >>)
             \o Only(Tail(names), S)

Fills(def, r) == Sets(def, r \o "1") /\ Sets(def, r \o "2")

Slot_Of(r) == CHOOSE i \in 1..Len(BarParams) : BarParams[i].canon = r

\* C28: once the block of a SPECIALIZE has run, a partial refinement (one
\* the path named) whose arguments are all filled is LOGIC! true in the
\* exemplar and not among its partials, while one with an argument left
\* unfilled is among the partials, in the order the path gave: the
\* partials that came from the path, read from the last slot to the first,
\* are the path without the fulfilled refinements.
C28_FulfilledPartialBecomesTrue ==
    (lastSpec.op = "specialize-bar" /\ lastSpec.error = "none")
       => LET exemplar == lastSpec.action.exemplar
              partials == Partials_Of(exemplar)
              kept == Only(partials, {lastSpec.path[i] : i \in DOMAIN lastSpec.path})
              unfulfilled == Only(lastSpec.path,
                                  {r \in {"p", "q"} : ~Fills(lastSpec.def, r)})
          IN /\ \A i \in DOMAIN lastSpec.path :
                   LET r == lastSpec.path[i] IN
                   IF Fills(lastSpec.def, r)
                   THEN /\ exemplar[Slot_Of(r)] = Init_Logic(TRUE)
                        /\ \A k \in DOMAIN partials : partials[k] # r
                   ELSE /\ \E k \in DOMAIN partials : partials[k] = r
                        /\ ~IS_LOGIC(exemplar[Slot_Of(r)])
                              \/ exemplar[Slot_Of(r)] # Init_Logic(TRUE)
             /\ Len(kept) = Len(unfulfilled)
             /\ \A k \in DOMAIN kept :
                   kept[k] = unfulfilled[Len(unfulfilled) + 1 - k]

C28_Witness ==
    /\ lastSpec.op = "specialize-bar"
    /\ lastSpec.error = "none"
    /\ lastSpec.path = << "q", "p" >>
    /\ lastSpec.def = << Set_Word("p1", Init_Text("v")),
                         Set_Word("q1", Init_Text("v")),
                         Set_Word("q2", Init_Text("v")) >>
    /\ lastSpec.action.exemplar[Slot_Of("q")] = Init_Logic(TRUE)
    /\ Partials_Of(lastSpec.action.exemplar) = << "p" >>

\* ------------------------------------------------------------------------
\* Context variables: SET and GET (core/n-data.c), PD_Context and
\* Append_To_Context (core/t-object.c)
\* ------------------------------------------------------------------------
\* One context; each variable has its key, its value and the PROTECTED and
\* hidden bits of its cell.  Values are named by what they are.
Values == {"void", "blank", "1", "action"}

Words == {"a", "b"}

Var(key, value, protected, hidden) ==
    [key |-> key, value |-> value, protected |-> protected,
     hidden |-> hidden, enfixed |-> FALSE]

Find_Symbol_In_Context(c, spelling) ==
    LET hit == {n \in 1..Len(c) : c[n].key = spelling} IN
    IF hit = {} THEN 0 ELSE CHOOSE n \in hit : TRUE

\* Sink_Var_May_Fail / Move_Opt_Var_May_Fail: the variable a bound word
\* refers to; an unbound word fails, and so does a protected one on write
Sink_Var_May_Fail(c, word) ==
    LET n == Find_Symbol_In_Context(c, word) IN
    IF n = 0 THEN [error |-> "not-bound", n |-> 0]
    ELSE IF c[n].protected THEN [error |-> "protected-word", n |-> n]
    ELSE [error |-> "none", n |-> n]

Move_Opt_Var_May_Fail(c, word) ==
    LET n == Find_Symbol_In_Context(c, word) IN
    IF n = 0 THEN [error |-> "not-bound", value |-> "void"]
    ELSE [error |-> "none", value |-> c[n].value]

\* Derelativize(var, value, specifier): the cell of variable n is
\* overwritten with the value; its PROTECTED and hidden bits stay
Derelativize_Nothing(c, n, value) == c

Derelativize(c, n, value) ==
    [c EXCEPT ![n].value = value, ![n].enfixed = FALSE]

\* A run writes to the context and in the end reads a variable once; the
\* read changes nothing, so what could follow it could have come before it.
Writing == {"none", "set", "poke", "append"}

\* REBNATIVE(set) with a word as target: `set/some/enfix word value`
set(word, value, some, enfix) ==
    LET var == Sink_Var_May_Fail(context, word)
        skip == some /\ value = "blank"
        error == IF skip THEN "none"
                 ELSE IF enfix /\ value # "action" THEN "enfix-non-function"
                 ELSE var.error
        stored == Derelativize(context, var.n, value)
    IN
    /\ lastCtx.op \in Writing
    /\ context' = IF skip \/ error # "none" THEN context
                  ELSE IF enfix THEN [stored EXCEPT ![var.n].enfixed = TRUE]
                  ELSE stored
    /\ lastCtx' = [op |-> "set", word |-> word, value |-> value,
                   plain |-> (~some /\ ~enfix), error |-> error,
                   out |-> IF error = "none" THEN value ELSE "void"]

\* REBNATIVE(get) with a word as source: `get/try word`
get(word, try) ==
    LET r == Move_Opt_Var_May_Fail(context, word) IN
    /\ lastCtx.op \in Writing
    /\ lastCtx' = [op |-> "get", word |-> word, error |-> r.error,
                   out |-> IF r.value = "void" /\ try THEN "blank"
                           ELSE r.value,
                   after |-> IF lastCtx.op = "set" THEN lastCtx
                             ELSE [op |-> "other"]]
    /\ UNCHANGED context

\* PD_Context(pvs, picker, setval): path dispatch on a context
PD_Context_Unchecked(c, picker, setval, mutable) ==
    LET n == Find_Symbol_In_Context(c, picker) IN
    IF picker \notin Words THEN [r |-> "R_UNHANDLED", n |-> 0]
    ELSE IF n = 0 THEN [r |-> "R_UNHANDLED", n |-> 0]
    ELSE IF setval /\ ~mutable THEN [r |-> "const-value", n |-> n]
    ELSE [r |-> "R_REFERENCE", n |-> n]

PD_Context(c, picker, setval, mutable) ==
    LET n == Find_Symbol_In_Context(c, picker) IN
    IF picker \notin Words THEN [r |-> "R_UNHANDLED", n |-> 0]
    ELSE IF n = 0 THEN [r |-> "R_UNHANDLED", n |-> 0]
    ELSE IF setval /\ ~mutable THEN [r |-> "const-value", n |-> n]
    ELSE IF setval /\ c[n].protected THEN [r |-> "protected-word", n |-> n]
    ELSE [r |-> "R_REFERENCE", n |-> n]

\* `context/picker: value`: the path machinery writes through the reference
\* PD_Context hands back
Poke(picker, value, mutable) ==
    LET r == PD_Context(context, picker, TRUE, mutable) IN
    /\ lastCtx.op \in Writing
    /\ context' = IF r.r = "R_REFERENCE"
                  THEN [context EXCEPT ![r.n].value = value]
                  ELSE context
    /\ lastCtx' = [op |-> "poke", reached |-> {picker},
                   error |-> IF r.r = "R_REFERENCE" THEN "none" ELSE r.r]

\* `context/picker`: the value read through the reference
Pick(picker) ==
    LET r == PD_Context(context, picker, FALSE, TRUE) IN
    /\ lastCtx.op \in Writing
    /\ lastCtx' = [op |-> "pick", key |-> picker,
                   error |-> IF r.r = "R_REFERENCE" THEN "none" ELSE r.r,
                   out |-> IF r.r = "R_REFERENCE" THEN context[r.n].value
                           ELSE "void"]
    /\ UNCHANGED context

\* Append_To_Context with a block of word/value pairs.  The word of a pair
\* is a word or some other value ("1"); "end" is the value of a last pair
\* whose value is missing.
RECURSIVE Collect_Keys(_, _, _)
Collect_Keys(c, pairs, k) ==
    IF k > Len(pairs) THEN [c |-> c, error |-> "none"]
    ELSE IF pairs[k].word \notin Words THEN [c |-> c, error |-> "bad-value"]
    ELSE Collect_Keys(
             IF Find_Symbol_In_Context(c, pairs[k].word) = 0
             THEN Append(c, Var(pairs[k].word, "void", FALSE, FALSE))
             ELSE c,
             pairs, k + 1)

\* the second loop: k is the pair the loop stopped at (past the end when it
\* ran through)
RECURSIVE Set_New_Values(_, _, _)
Set_New_Values(c, pairs, k) ==
    IF k > Len(pairs) THEN [c |-> c, error |-> "none", k |-> k]
    ELSE LET i == Find_Symbol_In_Context(c, pairs[k].word) IN
         IF c[i].protected
         THEN [c |-> c, error |-> "protected-key", k |-> k]
         ELSE IF c[i].hidden
         THEN [c |-> c, error |-> "hidden", k |-> k]
         ELSE IF pairs[k].value = "end"
         THEN [c |-> [c EXCEPT ![i].value = "blank"], error |-> "none",
               k |-> k]
         ELSE Set_New_Values(Derelativize(c, i, pairs[k].value), pairs, k + 1)

\* Collect_Start and Collect_End: a collection is begun with an empty
\* binder, and ending it takes every index out of the binder again
NoCollector == [active |-> FALSE, binder |-> << >>]

Collect_Start(col) == [active |-> TRUE, binder |-> << >>]

Collect_End(col) == NoCollector

\* the binder once Collect_Context_Keys and the first loop have given an
\* index to every key of c
Bound_Keys(col, c) == [col EXCEPT !.binder = [n \in 1..Len(c) |-> c[n].key]]

\* An exit that raises the error where it is found.
Leave_Collect_FailAtOnce(col, error) ==
    IF error # "none" THEN col ELSE Collect_End(col)

\* `collect_end: Collect_End(&collector); if (error != NULL) fail (error);`
Leave_Collect(col, error) == Collect_End(col)

Append_To_Context(pairs) ==
    LET collected == Collect_Keys(context, pairs, 1)
        assigned == Set_New_Values(collected.c, pairs, 1)
        error == IF collected.error # "none" THEN collected.error
                 ELSE assigned.error
        binding == Bound_Keys(Collect_Start(collector), collected.c)
    IN
    /\ lastCtx.op \in Writing
    /\ ~collector.active
    /\ collector' = Leave_Collect(binding, error)
    /\ IF collected.error # "none"
       THEN /\ context' = context
            /\ lastCtx' = [op |-> "append", error |-> collected.error,
                           reached |-> {}, collected |-> binding.binder]
       ELSE /\ context' = assigned.c
            /\ lastCtx' = [op |-> "append", error |-> assigned.error,
                           reached |-> {pairs[j].word :
                                           j \in (1..assigned.k) \cap
                                                 DOMAIN pairs},
                           collected |-> binding.binder]

\* the blocks APPEND is given: up to MaxPairs pairs, only the last of which
\* may lack its value
Blocks ==
    {b \in UNION {[1..n -> [word : Words \cup {"1"}, value : {"1", "end"}]] :
                     n \in 1..MaxPairs} :
        \A k \in DOMAIN b : b[k].value = "end" => k = Len(b)}

\* PROTECT and PROTECT/HIDE of a word: set the PROTECTED bit, or the hidden
\* bit, of the cell of its variable
protect(word, hide) ==
    LET n == Find_Symbol_In_Context(context, word) IN
    /\ lastCtx.op \in Writing
    /\ n # 0
    /\ context' = IF hide THEN [context EXCEPT ![n].hidden = TRUE]
                  ELSE [context EXCEPT ![n].protected = TRUE]
    /\ lastCtx' = [op |-> "none"]

\* the context starts with the variable a, unset; b is not a key of it yet
InitContext ==
    /\ context = << Var("a", "void", FALSE, FALSE) >>
    /\ lastCtx = [op |-> "none"]
    /\ collector = NoCollector

NextContext ==
    \/ /\ \E w \in Words, v \in Values, some \in BOOLEAN, enfix \in BOOLEAN :
             set(w, v, some, enfix)
       /\ UNCHANGED collector
    \/ /\ \E w \in Words, try \in BOOLEAN : get(w, try)
       /\ UNCHANGED collector
    \/ /\ \E p \in Words \cup {"1"}, v \in Values \ {"void"}, m \in BOOLEAN :
             Poke(p, v, m)
       /\ UNCHANGED collector
    \/ /\ \E p \in Words : Pick(p)
       /\ UNCHANGED collector
    \/ \E b \in Blocks : Append_To_Context(b)
    \/ /\ \E w \in Words, hide \in BOOLEAN : protect(w, hide)
       /\ UNCHANGED collector

\* ------------------------------------------------------------------------
\* Context variables: claims
\* ------------------------------------------------------------------------
\* C16: get (set w v) == v.  When `set w v` of a variable w to a stable
\* value v (any value but void) has succeeded, it has returned v and a GET
\* of w that follows returns v.
C16_GetAfterSet ==
    (/\ lastCtx.op = "get"
     /\ lastCtx.after.op = "set"
     /\ lastCtx.after.plain
     /\ lastCtx.after.error = "none"
     /\ lastCtx.after.value # "void"
     /\ lastCtx.after.word = lastCtx.word)
       => /\ lastCtx.after.out = lastCtx.after.value
          /\ lastCtx.error = "none"
          /\ lastCtx.out = lastCtx.after.value

C16_Witness ==
    /\ lastCtx.op = "get"
    /\ lastCtx.after.op = "set"
    /\ lastCtx.after.plain
    /\ lastCtx.after.error = "none"
    /\ lastCtx.after.word = "b"
    /\ lastCtx.word = "b"
    /\ Len(context) = 2
    /\ lastCtx.after.value = "action"
    /\ lastCtx.out = "action"

C39_CollectionAlwaysEnded ==
    /\ ~collector.active
    /\ collector.binder = << >>

\* an append that had given indexes to two keys failed on a hidden key
C39_Witness ==
    /\ lastCtx.op = "append"
    /\ lastCtx.error = "hidden"
    /\ Len(lastCtx.collected) >= 2
    /\ collector = NoCollector

\* ------------------------------------------------------------------------
\* Error recovery and the pools (core/c-error.c with core/m-pools.c)
\* ------------------------------------------------------------------------
\* The trapped code makes and manages series and raises errors; the handler
\* recovers.  unguarded[i] holds the series made unmanaged while active trap
\* i was the innermost one that are unmanaged still.
RECURSIVE Without(_, _)
Without(sets, s) ==
    IF sets = << >> THEN << >>
    ELSE << Head(sets) \ {s} >> \o Without(Tail(sets), s)

Since(sets, i) == UNION {sets[k] : k \in i..Len(sets)}

PUSH_TRAP ==
    /\ Push_Trap(FALSE)
    /\ unguarded' = Append(unguarded, {})
    /\ leaked' = {}
    /\ UNCHANGED poolVars

DROP_TRAP_SAME_STACKLEVEL_AS_PUSH ==
    /\ Drop_Trap
    /\ unguarded' = LET n == Len(unguarded) IN
                    IF n = 1 THEN << >>
                    ELSE Append(SubSeq(unguarded, 1, n - 2),
                                unguarded[n - 1] \cup unguarded[n])
    /\ leaked' = {}
    /\ UNCHANGED poolVars

\* the trapped code makes a series and keeps it unmanaged
Make_Unmanaged(content) ==
    /\ pc = "run"
    /\ Make_Series_Core(FALSE, content)
    /\ unguarded' = IF unguarded = << >> THEN unguarded
                    ELSE [unguarded EXCEPT ![Len(unguarded)] =
                             @ \cup {lastOp'.s}]
    /\ leaked' = {}
    /\ UNCHANGED trapVars

\* the trapped code hands a series it made to the collector
Manage_Made(s) ==
    /\ pc = "run"
    /\ Manage_Series(s)
    /\ unguarded' = Without(unguarded, s)
    /\ leaked' = {}
    /\ UNCHANGED trapVars

\* Trap(num): Make_Error clones the error object, a new series, and
\* Do_Error jumps with the error cell, a local of Trap
Trap(num) ==
    /\ Make_Series_Core(TRUE, "pooled")
    /\ RaiseCell(num, num, "local")
    /\ leaked' = {}
    /\ UNCHANGED unguarded

\* Trap_Stack_Overflow that makes its error as Trap does.
Trap_Stack_Overflow_MakesError ==
    /\ Make_Series_Core(TRUE, "pooled")
    /\ Trap_Stack_Overflow
    /\ leaked' = {}
    /\ UNCHANGED unguarded

\* Trap_Stack_Overflow(): its two statements copy the pre-allocated error
\* and jump; nothing is asked of the pools
Trap_Stack_Overflow_With_Pools ==
    /\ Trap_Stack_Overflow
    /\ leaked' = {}
    /\ UNCHANGED <<poolVars, unguarded>>

\* A recovery that frees the series made since the trap was pushed.
Trapped_With_Manuals_Freed ==
    /\ Trapped
    /\ leaked' = Since(unguarded, jumpTarget)
    /\ unguarded' = SubSeq(unguarded, 1, jumpTarget - 1)
    /\ GC_Manuals' = [GC_Manuals EXCEPT !.list =
                         SelectSeq(@, LAMBDA s : s \notin leaked')]
    /\ UNCHANGED <<NDEBUG, Mem_Pools, series, Prior_Expand, GC_Ballast,
                   SIG_RECYCLE, makes, lastOp>>

\* The handler's recovery: Trapped_Helper_Halted restores the stacks, the
\* guard tail, GC_Disabled and Saved_State; it has no statement on
\* GC_Manuals, a series or a pool.  leaked: the series made unmanaged since
\* the trap was pushed.
Trapped_With_Manuals ==
    /\ Trapped
    /\ leaked' = Since(unguarded, jumpTarget)
    /\ unguarded' = SubSeq(unguarded, 1, jumpTarget - 1)
    /\ UNCHANGED poolVars

InitRecover ==
    /\ unguarded = << >>
    /\ leaked = {}

NextRecover ==
    \/ PUSH_TRAP
    \/ DROP_TRAP_SAME_STACKLEVEL_AS_PUSH
    \/ \E c \in {"inline", "pooled"} : Make_Unmanaged(c)
    \/ \E s \in LiveSeries : Manage_Made(s)
    \/ Trap(RE_MISC)
    \/ Trap_Stack_Overflow_With_Pools
    \/ Trapped_With_Manuals

C22_OverflowAllocatesNothing ==
    [][(pc = "run" /\ pc' # "run" /\ raised'.val = RE_STACK_OVERFLOW)
          => /\ UNCHANGED <<Mem_Pools, series, GC_Manuals, GC_Ballast,
                            SIG_RECYCLE, makes>>
             /\ pc' = "jumped" =>
                   /\ jumpTarget' = Saved_State
                   /\ stateMem'[Saved_State].error = TASK_STACK_ERROR]_vars

C22_Witness ==
    /\ pc = "jumped"
    /\ raised.val = RE_STACK_OVERFLOW
    /\ stateMem[jumpTarget].error = TASK_STACK_ERROR
    /\ makes = MaxMakes
    /\ Mem_Pools[SER_POOL].first = 0

\* ------------------------------------------------------------------------
\* Exit status (core/c-error.c, Exit_Status_From_Value)
\* ------------------------------------------------------------------------
\* An INTEGER! is 64 bits wide, kept here as its upper 32 bits (hi, signed)
\* and the two 16-bit limbs of its lower 32 bits (l1 the upper one, l0 the
\* lower); an ERROR! carries its number.
Init_Integer64(hi, l1, l0) ==
    [kind |-> "integer", hi |-> hi, l1 |-> l1, l0 |-> l0, num |-> 0]

Init_Error(num) ==
    [kind |-> "error", hi |-> 0, l1 |-> 0, l0 |-> 0, num |-> num]

Init_Kind(kind) ==
    [kind |-> kind, hi |-> 0, l1 |-> 0, l0 |-> 0, num |-> 0]

\* VAL_INT32(v): the REBI64 of the cell converted to a 32-bit int, which
\* keeps the lower 32 bits
VAL_INT32(v) ==
    (IF v.l1 >= 2^15 THEN v.l1 - 2^16 ELSE v.l1) * 2^16 + v.l0

\* Exit_Status_From_Value that takes a NONE! for a failure.
Exit_Status_From_Value_NoneFails(value) ==
    IF value.kind = "integer" THEN VAL_INT32(value)
    ELSE IF value.kind = "unset" THEN 0
    ELSE IF value.kind = "error" THEN value.num
    ELSE 1

Exit_Status_From_Value(value) ==
    IF value.kind = "integer" THEN VAL_INT32(value)
    ELSE IF value.kind \in {"unset", "none"} THEN 0
    ELSE IF value.kind = "error" THEN value.num
    ELSE 1

\* the values a program ends with
ExitValues ==
    {Init_Integer64(hi, l1, l0) :
        hi \in {-INT32_MAX - 1, -1, 0, 1, INT32_MAX},
        l1 \in {0, 1, 2^15 - 1, 2^15, 2^16 - 1},
        l0 \in {0, 1, 255, 256, 2^16 - 1}}
    \cup {Init_Error(n) : n \in {1, 100, 300, 2^16}}
    \cup {Init_Kind(k) : k \in {"unset", "none", "logic", "string", "block"}}

\* the host ends the process with the status of the value it was handed
Exit(value) ==
    lastExit' = [op |-> "exit", value |-> value,
                 status |-> Exit_Status_From_Value(value)]

InitExit == lastExit = [op |-> "none"]

NextExit == \E value \in ExitValues : Exit(value)

\* the integer fits 32 bits: its upper half is the sign extension of the lower
Fits32(v) ==
    \/ v.hi = 0 /\ v.l1 < 2^15
    \/ v.hi = -1 /\ v.l1 >= 2^15

\* C23: the exit status derived from the returned value is the integer
\* itself as a 32-bit value for an integer (its lower 32 bits; so the
\* integer itself when it fits 32 bits), 0 for none or void, the error's
\* code for an error, and 1 for every other value.
C23_ExitStatus ==
    lastExit.op = "exit" =>
        LET v == lastExit.value
            status == lastExit.status
        IN  /\ v.kind = "integer" =>
                  /\ status >= -INT32_MAX - 1 /\ status <= INT32_MAX
                  /\ status % (2^16) = v.l0
                  /\ ((status - v.l0) \div (2^16)) % (2^16) = v.l1
                  /\ Fits32(v) => (status < 0 <=> v.hi = -1)
            /\ v.kind \in {"unset", "none"} => status = 0
            /\ v.kind = "error" => status = v.num
            /\ v.kind \notin {"integer", "unset", "none", "error"} => status = 1

\* an integer one past the unsigned 32-bit range leaves with status -1
C23_Witness ==
    /\ lastExit.op = "exit"
    /\ lastExit.value = Init_Integer64(1, 2^16 - 1, 2^16 - 1)
    /\ ~Fits32(lastExit.value)
    /\ lastExit.status = -1

\* ------------------------------------------------------------------------
\* DO of a FRAME!
\* ------------------------------------------------------------------------
FrameIds == 1..MaxFrames

\* the varlist of the last frame has had its variables taken from it
\* (Steal_Context_Vars in SPECIALIZE), which leaves it INACCESSIBLE
InitFrame ==
    /\ ctxs = [c \in FrameIds |-> [invoked |-> FALSE,
                                   inaccessible |-> c = MaxFrames,
                                   runs |-> 0]]
    /\ lastDo = [op |-> "none"]

\* Process_Action_Maybe_Stale_Throws on a frame built over the varlist: the
\* action runs with the varlist as its arguments, and the varlist is
\* marked FRAME_HAS_BEEN_INVOKED
Process_Action_Maybe_Stale_Throws(ctx) ==
    [ctx EXCEPT !.invoked = TRUE, !.runs = ctx.runs + 1]

\* Do_Frame_Ctx_Throws: push a frame over the varlist of c, run the action,
\* drop the frame
Do_Frame_Ctx_Throws(ctx) == Process_Action_Maybe_Stale_Throws(ctx)

Do_Frame_Maybe_Stale_Throws_NoStaleCheck(ctx, phased) ==
    IF phased THEN [error |-> "use-redo", ctx |-> ctx]
    ELSE IF ctx.inaccessible THEN [error |-> "inaccessible", ctx |-> ctx]
    ELSE [error |-> "none", ctx |-> Do_Frame_Ctx_Throws(ctx)]

\* Do_Frame_Maybe_Stale_Throws: a phased frame value is refused, VAL_CONTEXT
\* fails on an INACCESSIBLE varlist, a varlist that was invoked is stale,
\* and only then is the action run
Do_Frame_Maybe_Stale_Throws(ctx, phased) ==
    IF phased THEN [error |-> "use-redo", ctx |-> ctx]
    ELSE IF ctx.inaccessible THEN [error |-> "inaccessible", ctx |-> ctx]
    ELSE IF ctx.invoked THEN [error |-> "stale-frame", ctx |-> ctx]
    ELSE [error |-> "none", ctx |-> Do_Frame_Ctx_Throws(ctx)]

\* DO of a FRAME! value: c is its varlist, phased whether the value carries
\* a phase (the frame of a running function); the action may throw
do_frame(c, phased, threw) ==
    /\ ctxs[c].runs < MaxRuns
    /\ LET r == Do_Frame_Maybe_Stale_Throws(ctxs[c], phased)
       IN /\ ctxs' = [ctxs EXCEPT ![c] = r.ctx]
          /\ lastDo' = [op |-> "do", c |-> c, phased |-> phased,
                        error |-> r.error,
                        threw |-> r.error = "none" /\ threw]

NextFrame ==
    \E c \in FrameIds, phased \in BOOLEAN, threw \in BOOLEAN :
        do_frame(c, phased, threw)

DR_PEND == 1
DR_DONE == 0
DR_ERROR == -1

\* the request flags are an enumeration of bit NUMBERS, RRF_OPEN the first
RRF_OPEN == 0

U16_MAX == 65535  \* the largest u16

\* the C operators | and & on non-negative integers, and ~ as it lands in
\* the u16 flags field
RECURSIVE BitOr(_, _)
BitOr(a, b) ==
    IF a = 0 THEN b
    ELSE IF b = 0 THEN a
    ELSE (IF a % 2 = 1 \/ b % 2 = 1 THEN 1 ELSE 0)
         + 2 * BitOr(a \div 2, b \div 2)

RECURSIVE BitAnd(_, _)
BitAnd(a, b) ==
    IF a = 0 \/ b = 0 THEN 0
    ELSE (IF a % 2 = 1 /\ b % 2 = 1 THEN 1 ELSE 0)
         + 2 * BitAnd(a \div 2, b \div 2)

BitNot(a) == U16_MAX - a

\* SET_FLAG, CLR_FLAG and GET_FLAG take the bit number
SET_FLAG(flags, f) == BitOr(flags, 2^f)
CLR_FLAG(flags, f) == BitAnd(flags, BitNot(2^f))
GET_FLAG(flags, f) == BitAnd(flags, 2^f) # 0

IS_OPEN(r) == GET_FLAG(r.flags, RRF_OPEN)

\* a cleared request, no signal of its mask blocked or pending
InitSignal ==
    /\ REQ = [flags |-> 0, actual |-> 0, error |-> "none"]
    /\ OS = [blocked |-> FALSE, pending |-> 0, errno |-> "none"]
    /\ lastCmd = [cmd |-> "none"]

\* Signal_Device(req, type): an event of the type is posted for the request
Signal_Device(events, type) == Append(events, type)

\* Open_Signal: block the signals of the mask; fails is whether sigprocmask
\* reports an error (EINVAL)
Open_Signal(fails) ==
    IF fails
    THEN /\ OS' = [OS EXCEPT !.errno = "EINVAL"]
         /\ REQ' = [REQ EXCEPT !.error = "EINVAL"]
         /\ lastCmd' = [cmd |-> "open", result |-> DR_ERROR, events |-> << >>,
                        flags |-> REQ.flags]
    ELSE /\ OS' = [OS EXCEPT !.blocked = TRUE]
         /\ REQ' = [REQ EXCEPT !.flags = BitOr(REQ.flags, RRF_OPEN)]
         /\ lastCmd' = [cmd |-> "open", result |-> DR_DONE,
                        events |-> Signal_Device(<< >>, "EVT_OPEN"),
                        flags |-> REQ.flags]

\* Close_Signal: unblock the signals of the mask (those pending are then
\* delivered and no longer wait for a read)
Close_Signal(fails) ==
    IF fails
    THEN /\ OS' = [OS EXCEPT !.errno = "EINVAL"]
         /\ REQ' = [REQ EXCEPT !.error = "EINVAL"]
         /\ lastCmd' = [cmd |-> "close", result |-> DR_ERROR, events |-> << >>,
                        flags |-> REQ.flags]
    ELSE /\ OS' = [OS EXCEPT !.blocked = FALSE, !.pending = 0]
         /\ REQ' = [REQ EXCEPT !.flags = BitAnd(REQ.flags, BitNot(RRF_OPEN))]
         /\ lastCmd' = [cmd |-> "close", result |-> DR_DONE, events |-> << >>,
                        flags |-> REQ.flags]

\* the loop of Read_Signal from index i: sigtimedwait takes one pending
\* signal of the mask, or fails with EAGAIN when none is pending, or fails
\* with EINTR at the wait numbered fault (no wait has the number length)
RECURSIVE Read_Loop(_, _, _, _, _)
Read_Loop(i, length, pending, errno, fault) ==
    IF i >= length THEN [i |-> i, pending |-> pending, errno |-> errno,
                         error |-> FALSE]
    ELSE IF fault = i
         THEN [i |-> i, pending |-> pending, errno |-> "EINTR",
               error |-> i = 0]
    ELSE IF pending = 0
         THEN [i |-> i, pending |-> pending, errno |-> "EAGAIN",
               error |-> FALSE]
    ELSE Read_Loop(i + 1, length, pending - 1, errno, fault)

Read_Signal_AlwaysDone(length, fault) ==
    LET l == Read_Loop(0, length, OS.pending, "none", fault)
    IN  /\ OS' = [OS EXCEPT !.pending = l.pending, !.errno = l.errno]
        /\ IF l.error
           THEN /\ REQ' = REQ
                /\ lastCmd' = [cmd |-> "read", result |-> DR_ERROR,
                               events |-> Signal_Device(<< >>, "EVT_ERROR"),
                               length |-> length, read |-> l.i, failed |-> TRUE,
                               before |-> OS.pending]
           ELSE /\ REQ' = [REQ EXCEPT !.actual = l.i]
                /\ lastCmd' = [cmd |-> "read", result |-> DR_DONE,
                               events |-> Signal_Device(<< >>, "EVT_READ"),
                               length |-> length, read |-> l.i, failed |-> FALSE,
                               before |-> OS.pending]

\* Read_Signal: up to req->length waits with a zero timeout
Read_Signal(length, fault) ==
    LET l == Read_Loop(0, length, OS.pending, "none", fault)
    IN  /\ OS' = [OS EXCEPT !.pending = l.pending, !.errno = l.errno]
        /\ IF l.error
           THEN /\ REQ' = REQ
                /\ lastCmd' = [cmd |-> "read", result |-> DR_ERROR,
                               events |-> Signal_Device(<< >>, "EVT_ERROR"),
                               length |-> length, read |-> l.i, failed |-> TRUE,
                               before |-> OS.pending]
           ELSE /\ REQ' = [REQ EXCEPT !.actual = l.i]
                /\ IF l.i > 0
                   THEN lastCmd' = [cmd |-> "read", result |-> DR_DONE,
                                    events |-> Signal_Device(<< >>, "EVT_READ"),
                                    length |-> length, read |-> l.i,
                                    failed |-> FALSE, before |-> OS.pending]
                   ELSE lastCmd' = [cmd |-> "read", result |-> DR_PEND,
                                    events |-> << >>,
                                    length |-> length, read |-> l.i,
                                    failed |-> FALSE, before |-> OS.pending]

\* SET_OPEN(r) and SET_CLOSED(r), as the layers above the device use them
SET_OPEN ==
    /\ REQ' = [REQ EXCEPT !.flags = SET_FLAG(REQ.flags, RRF_OPEN)]
    /\ lastCmd' = [cmd |-> "set-open"]
    /\ UNCHANGED OS

SET_CLOSED ==
    /\ REQ' = [REQ EXCEPT !.flags = CLR_FLAG(REQ.flags, RRF_OPEN)]
    /\ lastCmd' = [cmd |-> "set-closed"]
    /\ UNCHANGED OS

\* a signal of the mask is raised while the mask is blocked: it stays pending
Signal_Arrives ==
    /\ OS.blocked
    /\ OS.pending < MaxPending
    /\ OS' = [OS EXCEPT !.pending = OS.pending + 1]
    /\ lastCmd' = [cmd |-> "raise"]
    /\ UNCHANGED REQ

NextSignal ==
    \/ \E fails \in BOOLEAN : Open_Signal(fails)
    \/ \E fails \in BOOLEAN : Close_Signal(fails)
    \/ \E length \in 0..MaxLength, fault \in 0..MaxLength :
          Read_Signal(length, fault)
    \/ SET_OPEN
    \/ SET_CLOSED
    \/ Signal_Arrives

\* C35: the open flag follows the protocol: IS_OPEN(req) holds after
\* Open_Signal returns DONE and does not hold after Close_Signal returns
\* DONE, and neither command changes any other flag of the request.
C35_OpenFlagFollowsProtocol ==
    /\ lastCmd.cmd = "open" /\ lastCmd.result = DR_DONE => IS_OPEN(REQ)
    /\ lastCmd.cmd = "close" /\ lastCmd.result = DR_DONE => ~IS_OPEN(REQ)
    /\ lastCmd.cmd \in {"open", "close"}
          => CLR_FLAG(REQ.flags, RRF_OPEN) = CLR_FLAG(lastCmd.flags, RRF_OPEN)

\* C36: a command of the signal device that returns ERROR has set the
\* request's error field to the cause of the failure (the errno of the
\* system call that failed).
C36_ErrorFieldSetOnError ==
    lastCmd.cmd \in {"open", "close", "read"} /\ lastCmd.result = DR_ERROR
        => /\ REQ.error # "none"
           /\ REQ.error = OS.errno

Make_Manual_Array ==
    /\ Make_Series_Core(FALSE, "pooled")
    /\ extent' = [extent EXCEPT ![lastOp'.s] =
                     [len |-> 0, rest |-> POOL_WIDE \div SIZEOF_REBVAL,
                      bias |-> 0, fixed |-> FALSE,
                      cells |-> << END_CELL >>]]

\* Free_Unmanaged_Series of an array
Free_Manual_Array(s) ==
    /\ Free_Unmanaged_Series(s)
    /\ extent' = [extent EXCEPT ![s] = NoExtent]

NextRing ==
    \/ Make_Manual_Array
    \/ \E s \in LiveSeries : Fill(s)
    \/ \E s \in LiveSeries, d \in 1..MaxDelta :
          Expand_Series(s, extent[s].len, d, FALSE)
    \/ \E s \in LiveSeries : Free_Manual_Array(s)

\* C34: once a series has been decayed or freed it is in no slot of the
\* recently-expanded list: every series a slot holds is a live series
\* whose data has not been released (so a series made later on the same
\* node is not taken for a recently expanded one).
C34_DeadSeriesNotInPriorExpand ==
    \A k \in 1..Len(Prior_Expand) :
        Prior_Expand[k] \notin {0, EXPAND_SENTINEL}
            => /\ Prior_Expand[k] \in LiveSeries
               /\ ~series[Prior_Expand[k]].inaccessible

\* ------------------------------------------------------------------------
\* Specifications: one per subsystem, the others idle
\* ------------------------------------------------------------------------
Init == InitTrap /\ InitReturn /\ InitCatch /\ InitPool /\ InitExpand
        /\ InitSpecialize /\ InitContext /\ InitRecover /\ InitExit
        /\ InitFrame /\ InitSignal

SpecTrap ==
    Init /\ [][NextTrap /\ UNCHANGED <<returnVars, catchVars, poolVars,
                                        expandVars, specVars, ctxVars, recoverVars, exitVars,
            frameVars, signalVars>>]_vars

SpecReturn ==
    Init /\ [][NextReturn /\ UNCHANGED <<trapVars, catchVars, poolVars,
                                          expandVars, specVars, ctxVars, recoverVars, exitVars,
            frameVars, signalVars>>]_vars

SpecCatch ==
    Init /\ [][NextCatch /\ UNCHANGED <<trapVars, returnVars, poolVars,
                                         expandVars, specVars, ctxVars, recoverVars, exitVars,
            frameVars, signalVars>>]_vars

SpecPool ==
    Init /\ [][NextPool /\ UNCHANGED <<trapVars, returnVars, catchVars,
                                        expandVars, specVars, ctxVars, recoverVars, exitVars,
            frameVars, signalVars>>]_vars

SpecDecay ==
    Init /\ [][NextDecay /\ UNCHANGED <<trapVars, returnVars, catchVars,
                                         expandVars, specVars, ctxVars, recoverVars, exitVars,
            frameVars, signalVars>>]_vars

SpecExpand ==
    Init /\ [][NextExpand /\ UNCHANGED <<trapVars, returnVars, catchVars,
                                          specVars, ctxVars, recoverVars, exitVars,
            frameVars, signalVars>>]_vars

SpecSpecialize ==
    Init /\ [][NextSpecialize /\ UNCHANGED <<trapVars, returnVars, catchVars,
                                              poolVars, expandVars, ctxVars, recoverVars, exitVars,
            frameVars, signalVars>>]_vars

SpecContext ==
    Init /\ [][NextContext /\ UNCHANGED <<trapVars, returnVars, catchVars,
                                           poolVars, expandVars, specVars, recoverVars, exitVars,
            frameVars, signalVars>>]_vars

SpecRecover ==
    Init /\ [][NextRecover /\ UNCHANGED <<returnVars, catchVars, expandVars,
                                           specVars, ctxVars, exitVars,
            frameVars, signalVars>>]_vars

SpecExit ==
    Init /\ [][NextExit /\ UNCHANGED <<trapVars, returnVars, catchVars,
                                        poolVars, expandVars, specVars,
                                        ctxVars, recoverVars,
            frameVars, signalVars>>]_vars

SpecRing ==
    Init /\ [][NextRing /\ UNCHANGED <<trapVars, returnVars, catchVars,
                                        specVars, ctxVars, recoverVars, exitVars,
                                        frameVars, signalVars>>]_vars

SpecFrame ==
    Init /\ [][NextFrame /\ UNCHANGED <<trapVars, returnVars, catchVars,
                                         poolVars, expandVars, specVars, ctxVars,
                                         recoverVars, exitVars, signalVars>>]_vars

SpecSignal ==
    Init /\ [][NextSignal /\ UNCHANGED <<trapVars, returnVars, catchVars,
                                          poolVars, expandVars, specVars, ctxVars,
                                          recoverVars, exitVars, frameVars>>]_vars
=============================================================================
